---- MODULE Spec2Model ----
(***************************************************************************)
(* A model of the EventCalendar bot:                                       *)
(*   - cogs/dynamic_events.py: the event flow of DynamicEventModal         *)
(*     (details form -> tag picker -> per-day calendar inserts -> tag      *)
(*     resolution -> forum thread),                                        *)
(*   - cogs/dynamic_events.py: the pure helper _resolve_forum_tags,        *)
(*   - cogs/reminders.py: the reminder scan loop over reminder_log,        *)
(*   - cogs/event_wizard.py: the /event_wizard command, its draft table    *)
(*     _WIZ_STATE and the callbacks of its two pages,                      *)
(*   - cogs/events.py: the RSVP buttons of RSVPView and /event_create,     *)
(*   - shared.py: get_tags over the Roles sheet,                           *)
(*   - cogs/roles_sync.py: /roles sync,                                    *)
(*   - cogs/sync_members.py: /sync_members.                                *)
(* The specifications share one set of variables: Spec (the event flow),   *)
(* SpecTags (the tag resolver on bounded inputs), SpecRem (the reminder    *)
(* loop), SpecWiz (the event wizard used by two operators), SpecRsvp (the  *)
(* RSVP buttons), SpecCat (get_tags), SpecConc (the reminder loop next to  *)
(* the operators' flows), SpecCmd (the two creating commands), SpecDays    *)
(* (the day pickers of the wizard), SpecRoles (/roles sync), SpecMembers   *)
(* (/sync_members).  Instants are local-civil wall-clock values, as the    *)
(* code compares and shifts them (datetimes sharing one tzinfo).           *)
(***************************************************************************)
EXTENDS Integers, Sequences, FiniteSets, TLC

VARIABLES
  \* ---- DynamicEventModal.on_submit and ForumTagView
  pc,             \* position of on_submit: "form", "picker", "materialize",
                  \* "inserting", "resolve", "posting", "done"
  outcome,        \* how on_submit ended ("" while running)
  start_full,     \* parsed start datetime [y, m, d, hour, minute]
  end_full,       \* parsed end datetime
  available_tags, \* channel.available_tags: the forum's live tag list
  options,        \* labels offered by ForumTagSelect
  selected,       \* ForumTagView.selected
  view,           \* ForumTagView: "none", "open", "stopped", "timeout"
  cur,            \* _daterange cursor of the insert loop (a date)
  attempts,       \* gcal_insert_event calls made: [day, start_dt, end_dt, result]
  calendar,       \* entries held by the calendar store
  calendar_links, \* links collected by on_submit
  followups,      \* messages sent to the operator (interaction.followup / response)
  threads,        \* threads created in the forum channel
  summary,        \* the embed built by on_submit (or NoSummary)
  \* ---- _resolve_forum_tags on bounded inputs
  t_channel,      \* the channel's available_tags given to the resolver
  t_names,        \* the requested names
  t_result,       \* the returned (found, missing), or NotRun
  \* ---- Reminders.reminder_loop
  now,            \* wall clock, in minutes
  loop_state,     \* "sleeping", "iterating", "dead" (task ended by an exception)
  items,          \* resp["items"] of the running tick
  idx,            \* position of the for loop in items
  table_exists,   \* whether the database holds a reminder_log table
  reminder_log,   \* rows of reminder_log: (event_id, tag) pairs
  alerts,         \* alerts delivered: sequence of [event_id, tag, at]
  last_fetch,     \* result of the tick's gcal_list: "none", "ok", "failed"
  \* ---- further locals of on_submit
  in_flight,      \* days whose gcal_insert_event call has not returned yet
  channel,        \* on_submit's channel: "unset", "none" (None), "forum", "not_forum"
  start_dt_in,    \* the modal's start text, as submitted
  end_dt_in,      \* the modal's end text, as submitted
  \* ---- the target lookup of reminder_loop
  lookup,         \* what the last pass of the for loop found: [event_id, thread,
                  \* channel, default], or NoLookup
  \* ---- cogs/event_wizard.py
  _WIZ_STATE,     \* the module's draft table: user id -> dict of draft fields
  dialogs,        \* the wizard messages: [user_id, page, modal, live, children]
  wiz_calls,      \* gcal_insert_event calls of create: [user_id, body, result]
  event_tags,     \* rows of event_tags written by create: (call number, tag)
  channel_msgs,   \* messages sent to the target events channel
  wiz_last,       \* the last wizard step: [user_id, dialog, kind, reply]
  wiz_steps,      \* number of wizard steps taken
  \* ---- what reminder_loop's except clauses dropped
  failures,       \* the failed fetches and sends so far: [kind, event_id, at]
  \* ---- the bot's database (shared.ensure_db)
  events_map,     \* rows of events_map: [discord_message_id, event_id,
                  \* channel_id, thread_id]
  rsvps,          \* rows of rsvps: [event_id, user_id, status]
  \* ---- cogs/events.py, RSVPView
  thread_members, \* users added to event threads: (thread_id, user_id) pairs
  rsvp_last,      \* the last button press: [event_id, user_id, status, answered]
  rsvp_chosen,    \* per (event, user): the status of the last press the
                  \* database accepted ("" before any)
  \* ---- shared.get_tags over the Roles sheet
  sheet,          \* the values of the Roles tab, a list of rows of cells
  g_state,        \* "idle", "reading" (inside _sheets_get), "done"
  g_type,         \* get_tags' tag_type
  g_attempt,      \* _sheets_get's attempt
  g_failed,       \* reads of the sheet that raised during the call
  g_result,       \* what get_tags did: [raised, value], or NotRead
  \* ---- cogs/roles_sync.py, /roles sync
  guild_roles,    \* guild.roles: [id, name, is_default, managed, members]
  sheet_names,    \* what list_interest_roles returns
  rs,             \* the command in progress: [pc, run, prune_missing, sheet_set,
                  \* todo, snapshot, created, pruned, msg, next_id]
  rs_done,        \* the syncs that reached their summary message
  role_edits,     \* the member changes made by others so far
  \* ---- cogs/sync_members.py, /sync_members
  guild_members,  \* the members guild.fetch_members yields
  ws_rows,        \* the data rows of the members tab, below its header
  sm_now,         \* datetime.now(UTC), advancing with every run
  sm_last         \* the last run: [members, appended, updated, rows_before]

flowVars == <<pc, outcome, start_full, end_full, available_tags, options, selected,
              view, cur, attempts, calendar, calendar_links, followups, threads,
              summary, in_flight, channel, start_dt_in, end_dt_in>>
wizVars  == <<_WIZ_STATE, dialogs, wiz_calls, event_tags, channel_msgs, wiz_last,
              wiz_steps>>
tagVars  == <<t_channel, t_names, t_result>>
remVars  == <<now, loop_state, items, idx, table_exists, reminder_log, alerts,
              last_fetch, lookup, failures>>
rsvpVars == <<rsvps, thread_members, rsvp_last, rsvp_chosen>>
catVars  == <<sheet, g_state, g_type, g_attempt, g_failed, g_result>>
dbVars   == <<events_map, rsvpVars>>
roleVars == <<guild_roles, sheet_names, rs, rs_done, role_edits>>
memVars  == <<guild_members, ws_rows, sm_now, sm_last>>
adminVars == <<roleVars, memVars>>
restVars == <<dbVars, catVars, adminVars>>
vars     == <<flowVars, tagVars, remVars, wizVars, restVars>>

----------------------------------------------------------------------------
(* Sequence helpers *)

Range(s) == {s[i] : i \in DOMAIN s}

Take(s, n) == SubSeq(s, 1, IF n < Len(s) THEN n ELSE Len(s))

NoDuplicates(s) == \A i, j \in DOMAIN s : i # j => s[i] # s[j]

\* all duplicate-free sequences over S of length lo..hi
RECURSIVE InjSeqs(_, _)
InjSeqs(S, n) ==
  IF n = 0 THEN {<<>>}
  ELSE {<<>>} \cup {<<x>> \o t : x \in S, t \in InjSeqs(S, n - 1)}

DistinctSeqs(S, lo, hi) ==
  {s \in InjSeqs(S, hi) : Len(s) >= lo /\ NoDuplicates(s)}

\* all sequences over S of length 0..n
RECURSIVE SeqsUpTo(_, _)
SeqsUpTo(S, n) ==
  IF n = 0 THEN {<<>>}
  ELSE {<<>>} \cup {<<x>> \o t : x \in S, t \in SeqsUpTo(S, n - 1)}

----------------------------------------------------------------------------
(* Dates and datetimes of the proleptic Gregorian calendar: a date is     *)
(* [y, m, d], a datetime adds hour and minute.                             *)

IsLeap(y) == (y % 4 = 0) /\ ((y % 100 # 0) \/ (y % 400 = 0))

DaysInMonth(y, m) ==
  IF m = 2 THEN (IF IsLeap(y) THEN 29 ELSE 28)
  ELSE IF m \in {4, 6, 9, 11} THEN 30 ELSE 31

\* dt.date()
DateOf(dt) == [y |-> dt.y, m |-> dt.m, d |-> dt.d]

DateLT(a, b) ==
  \/ a.y < b.y
  \/ a.y = b.y /\ a.m < b.m
  \/ a.y = b.y /\ a.m = b.m /\ a.d < b.d

DateLE(a, b) == DateLT(a, b) \/ (a.y = b.y /\ a.m = b.m /\ a.d = b.d)

\* x + timedelta(days=1), for a date or a datetime
NextDay(x) ==
  IF x.d < DaysInMonth(x.y, x.m) THEN [x EXCEPT !.d = @ + 1]
  ELSE IF x.m < 12 THEN [x EXCEPT !.m = @ + 1, !.d = 1]
  ELSE [x EXCEPT !.y = @ + 1, !.m = 1, !.d = 1]

\* datetime ordering: same tzinfo, so the wall-clock fields compare
DtLE(a, b) ==
  \/ DateLT(DateOf(a), DateOf(b))
  \/ /\ DateOf(a) = DateOf(b)
     /\ \/ a.hour < b.hour
        \/ a.hour = b.hour /\ a.minute <= b.minute

DtLT(a, b) == DtLE(a, b) /\ a # b

\* day.replace(hour=h, minute=mi) of a midnight datetime
At(day, h, mi) == [y |-> day.y, m |-> day.m, d |-> day.d, hour |-> h, minute |-> mi]

----------------------------------------------------------------------------
(* Text of the modal's start/end inputs: the fields of                     *)
(* "MM/DD/YYYY h:mm am/pm" as typed; ap is the trailing am/pm token.       *)

\* re.sub(r"\s*(am|pm)\s*$", " " + upper, flags=re.I): the token upper-cased
NormalizeAmPm(ap) ==
  CASE ap \in {"am", "AM", "Am", "aM"} -> "AM"
    [] ap \in {"pm", "PM", "Pm", "pM"} -> "PM"
    [] OTHER -> ap

ParseError == [ok |-> FALSE]

\* a parser that does not check the day against the month or the hour
\* against the 12-hour clock
_parse_mdy12_lenient(s) ==
  LET ap == NormalizeAmPm(s.ap) IN
  IF /\ s.mm \in 1..12
     /\ s.yyyy \in 1..9999
     /\ s.dd \in 1..31
     /\ s.mi \in 0..59
     /\ ap \in {"AM", "PM"}
  THEN [ok |-> TRUE,
        dt |-> [y |-> s.yyyy, m |-> s.mm, d |-> s.dd,
                hour   |-> (s.hh % 12) + (IF ap = "PM" THEN 12 ELSE 0),
                minute |-> s.mi]]
  ELSE ParseError

\* datetime.strptime(s, "%m/%d/%Y %I:%M %p"): ValueError on a field out of range
_parse_mdy12(s) ==
  LET ap == NormalizeAmPm(s.ap) IN
  IF /\ s.mm \in 1..12
     /\ s.yyyy \in 1..9999
     /\ s.dd \in 1..31
     /\ s.dd <= DaysInMonth(s.yyyy, s.mm)
     /\ s.hh \in 1..12
     /\ s.mi \in 0..59
     /\ ap \in {"AM", "PM"}
  THEN [ok |-> TRUE,
        dt |-> [y |-> s.yyyy, m |-> s.mm, d |-> s.dd,
                hour   |-> (s.hh % 12) + (IF ap = "PM" THEN 12 ELSE 0),
                minute |-> s.mi]]
  ELSE ParseError

\* the loop test with the end day left out
MoreDaysExclusive(c, d1) == DateLT(c, d1)

\* the loop test running one day past the end
MoreDaysPastEnd(c, d1) == DateLE(c, NextDay(d1))

\* while cur.date() <= d1.date() (the loop test of _daterange)
MoreDays(c, d1) == DateLE(c, d1)

\* _daterange(d0, d1): the days cur = d0, d0 + 1 day, ... while cur <= d1
RECURSIVE _daterange(_, _)
_daterange(d0, d1) ==
  IF MoreDays(d0, d1) THEN <<d0>> \o _daterange(NextDay(d0), d1) ELSE <<>>

----------------------------------------------------------------------------
(* Names: strings as sequences of characters, so that strip() and lower()  *)
(* are computed.                                                           *)

Upper == <<"A", "B", "C", "D", "E", "F", "G", "H", "I", "J", "K", "L", "M",
           "N", "O", "P", "Q", "R", "S", "T", "U", "V", "W", "X", "Y", "Z">>
Lower == <<"a", "b", "c", "d", "e", "f", "g", "h", "i", "j", "k", "l", "m",
           "n", "o", "p", "q", "r", "s", "t", "u", "v", "w", "x", "y", "z">>

LowerChar(c) ==
  IF \E i \in DOMAIN Upper : Upper[i] = c
  THEN Lower[CHOOSE i \in DOMAIN Upper : Upper[i] = c]
  ELSE c

\* str.lower()
StrLower(s) == [i \in DOMAIN s |-> LowerChar(s[i])]

IsSpace(c) == c \in {" ", "\t", "\n"}

RECURSIVE LStrip(_)
LStrip(s) == IF s # <<>> /\ IsSpace(Head(s)) THEN LStrip(Tail(s)) ELSE s

RECURSIVE RStrip(_)
RStrip(s) ==
  IF s # <<>> /\ IsSpace(s[Len(s)]) THEN RStrip(SubSeq(s, 1, Len(s) - 1)) ELSE s

\* str.strip()
StrStrip(s) == RStrip(LStrip(s))

\* the key without strip()
TagKeyNoStrip(n) == StrLower(n)

\* n.strip().lower(): the key of _resolve_forum_tags
TagKey(n) == StrLower(StrStrip(n))

\* by_name = {t.name.strip().lower(): t for t in channel.available_tags}:
\* a later tag with the same key replaces an earlier one
ByNameHas(tags, key) == \E i \in DOMAIN tags : TagKey(tags[i].name) = key

ByNameGet(tags, key) ==
  tags[CHOOSE i \in DOMAIN tags :
         /\ TagKey(tags[i].name) = key
         /\ \A j \in DOMAIN tags : TagKey(tags[j].name) = key => j <= i]

\* ForumTag equality is by id (discord Hashable)
TagIn(t, found) == \E i \in DOMAIN found : found[i].id = t.id

\* the for loop of _resolve_forum_tags, from names[k] on, with found/missing so far
RECURSIVE ResolveFrom(_, _, _, _, _)
ResolveFrom(tags, names, k, found, missing) ==
  IF k > Len(names) THEN <<found, missing>>
  ELSE LET key == TagKey(names[k]) IN
       IF ByNameHas(tags, key)
       THEN LET t == ByNameGet(tags, key) IN
            IF ~TagIn(t, found)
            THEN ResolveFrom(tags, names, k + 1, Append(found, t), missing)
            ELSE ResolveFrom(tags, names, k + 1, found, missing)
       ELSE ResolveFrom(tags, names, k + 1, found, Append(missing, names[k]))

\* the resolver forgetting the names it did not find
_resolve_forum_tags_nomissing(tags, names) ==
  <<ResolveFrom(tags, names, 1, <<>>, <<>>)[1], <<>>>>

\* the resolver returning the found tags in catalog order
_resolve_forum_tags_catalog_order(tags, names) ==
  LET r == ResolveFrom(tags, names, 1, <<>>, <<>>) IN
  <<SelectSeq(tags, LAMBDA t : \E i \in DOMAIN r[1] : r[1][i] = t), r[2]>>

\* _resolve_forum_tags(channel, names) -> (found, missing)
_resolve_forum_tags(tags, names) == ResolveFrom(tags, names, 1, <<>>, <<>>)

----------------------------------------------------------------------------
(* Inputs of the event flow *)

\* the longest date range entered, in days (a fourth day gives a fourth link)
MaxSpan == 4

\* how often Confirm is pressed with nothing selected
MaxPrompts == 1

\* ForumTagSelect: channel.available_tags[:25]
MaxOptions == 25
\* ForumTagSelect: t.name[:100]
MaxLabel == 100
\* ForumTagSelect: max_values=min(5, len(opts)); create_thread: tags[:5]
MaxTags == 5
\* the inline links of the "Calendar" field: labels[:3]
MaxInlineLinks == 3

DateTexts ==
  { [mm |-> 2, dd |-> 28, yyyy |-> 2024], [mm |-> 2, dd |-> 29, yyyy |-> 2024],
    [mm |-> 3, dd |-> 1,  yyyy |-> 2024], [mm |-> 3, dd |-> 2,  yyyy |-> 2024],
    [mm |-> 2, dd |-> 30, yyyy |-> 2024] }

TimeTexts ==
  { [hh |-> 12, mi |-> 0,  ap |-> "am"], [hh |-> 9,  mi |-> 30, ap |-> "pm"],
    [hh |-> 13, mi |-> 0,  ap |-> "PM"] }

Texts ==
  { [mm |-> d.mm, dd |-> d.dd, yyyy |-> d.yyyy, hh |-> t.hh, mi |-> t.mi, ap |-> t.ap] :
      d \in DateTexts, t \in TimeTexts }

nGames     == <<"G", "a", "m", "e", "s">>
nYardSale  == <<"Y", "a", "r", "d", " ", "S", "a", "l", "e">>
nNoTags    == <<"N", "o", " ", "t", "a", "g", "s", " ",
                "c", "o", "n", "f", "i", "g", "u", "r", "e", "d">>

tagGames    == [id |-> 1, name |-> nGames]
tagYardSale == [id |-> 2, name |-> nYardSale]

\* the tag lists the forum channel can have; moderators edit them at any time
Catalogs == { <<>>, <<tagGames>>, <<tagGames, tagYardSale>> }

\* how interaction.guild.get_channel / client.fetch_channel can end
ChannelResults == {"cached", "fetched", "forbidden", "not_found", "fetch_error", "not_forum"}

\* how one gcal_insert_event call can end: an entry with a link, an entry
\* without htmlLink, or an exception
InsertResults == {"link", "nolink", "error"}

NoValue   == [none |-> TRUE]
NoSummary == [none |-> TRUE]

Msg(text, arg) == [text |-> text, arg |-> arg]

Say(text) == Append(followups, Msg(text, <<>>))

SayArg(text, arg) == Append(followups, Msg(text, arg))

Said(text) == \E i \in DOMAIN followups : followups[i].text = text

PromptCount == Cardinality({i \in DOMAIN followups : followups[i].text = "Pick at least one tag."})

----------------------------------------------------------------------------
(* DynamicEventModal.on_submit, up to the wait on the tag picker *)

\* opts = [SelectOption(label=t.name[:100]) for t in channel.available_tags[:25]]
PickerOptions(tags) ==
  LET first == Take(tags, MaxOptions) IN
  [i \in DOMAIN first |-> Take(first[i].name, MaxLabel)]

\* the values a ForumTagSelect can deliver: min_values..max_values distinct labels
SelectValues(opts) ==
  IF Len(opts) > 0
  THEN DistinctSeqs(Range(opts), 1, IF MaxTags < Len(opts) THEN MaxTags ELSE Len(opts))
  ELSE DistinctSeqs({nNoTags}, 0, 1)

\* every channel taken for a forum channel
IsForumChannelAny(chan) == TRUE

\* isinstance(channel, discord.ForumChannel), of a channel that was found
IsForumChannel(chan) == chan \in {"cached", "fetched"}

\* the local variable channel after lines 168-179
ChannelAfter(chan) ==
  IF chan \in {"forbidden", "not_found", "fetch_error"} THEN "none"
  ELSE IF chan = "not_forum" THEN "not_forum" ELSE "forum"

\* the date test with its operands swapped
EndBeforeStartSwapped(s, e) == DateLT(DateOf(s), DateOf(e))

\* end_full.date() < start_full.date()
EndBeforeStart(s, e) == DateLT(DateOf(e), DateOf(s))

FlowEnds(o, msgs) ==
  /\ pc' = "done"
  /\ outcome' = o
  /\ followups' = msgs

on_submit(start_text, end_text, chan) ==
  /\ pc = "form"
  /\ start_dt_in' = start_text
  /\ end_dt_in' = end_text
  /\ LET ps == _parse_mdy12(start_text)
         pe == _parse_mdy12(end_text)
     IN
     IF ~ps.ok \/ ~pe.ok
     THEN /\ FlowEnds("InvalidInput", Say("Invalid datetime. Use MM/DD/YYYY h:mm am/pm."))
          /\ UNCHANGED <<start_full, end_full, options, selected, view, channel>>
     ELSE IF EndBeforeStart(ps.dt, pe.dt)
     THEN /\ FlowEnds("InvalidInput", Say("End date is before start date."))
          /\ start_full' = ps.dt
          /\ end_full' = pe.dt
          /\ UNCHANGED <<options, selected, view, channel>>
     ELSE /\ Len(_daterange(DateOf(ps.dt), DateOf(pe.dt))) <= MaxSpan
          /\ start_full' = ps.dt
          /\ end_full' = pe.dt
          /\ channel' = ChannelAfter(chan)
          /\ CASE chan = "forbidden" ->
                    /\ FlowEnds("DestinationUnavailable",
                                Say("Bot lacks permission to view that channel."))
                    /\ UNCHANGED <<options, selected, view>>
               [] chan = "not_found" ->
                    /\ FlowEnds("DestinationUnavailable",
                                Say("Channel ID not found. Check config."))
                    /\ UNCHANGED <<options, selected, view>>
               [] chan = "fetch_error" ->
                    /\ FlowEnds("DestinationUnavailable", Say("Fetch error"))
                    /\ UNCHANGED <<options, selected, view>>
               [] ~IsForumChannel(chan) ->
                    /\ FlowEnds("DestinationUnavailable", Say("Need a Forum channel."))
                    /\ UNCHANGED <<options, selected, view>>
               [] OTHER ->
                    /\ options' = PickerOptions(available_tags)
                    /\ selected' = <<>>
                    /\ view' = "open"
                    /\ followups' = Say("tag_prompt")
                    /\ pc' = "picker"
                    /\ UNCHANGED outcome
  /\ UNCHANGED <<available_tags, cur, attempts, calendar, calendar_links, threads, summary>>
  /\ UNCHANGED <<in_flight, tagVars, remVars, wizVars, restVars>>

\* the operator submits the modal with some start and end text
Submit ==
  /\ pc = "form"
  /\ \E s \in Texts, e \in Texts, c \in ChannelResults : on_submit(s, e, c)

----------------------------------------------------------------------------
(* ForumTagView and ForumTagSelect *)

\* ForumTagSelect.callback
callback(values) ==
  /\ view = "open"
  /\ values \in SelectValues(options)
  /\ selected' = values
  /\ UNCHANGED <<pc, outcome, start_full, end_full, available_tags, options, view, cur,
                 attempts, calendar, calendar_links, followups, threads, summary>>
  /\ UNCHANGED <<in_flight, channel, start_dt_in, end_dt_in, tagVars, remVars, wizVars, restVars>>

\* the operator picks values in the select menu
Select ==
  /\ view = "open"
  /\ \E v \in SelectValues(options) : callback(v)

\* ForumTagView._confirm
Confirm ==
  /\ view = "open"
  /\ IF selected = <<>>
     THEN /\ PromptCount < MaxPrompts
          /\ followups' = Say("Pick at least one tag.")
          /\ UNCHANGED view
     ELSE /\ view' = "stopped"
          /\ UNCHANGED followups
  /\ UNCHANGED <<pc, outcome, start_full, end_full, available_tags, options, selected,
                 cur, attempts, calendar, calendar_links, threads, summary>>
  /\ UNCHANGED <<in_flight, channel, start_dt_in, end_dt_in, tagVars, remVars, wizVars, restVars>>

\* _cancel without "self.selected = []"
CancelKeepsSelection ==
  /\ view = "open"
  /\ view' = "stopped"
  /\ followups' = Say("Canceled.")
  /\ UNCHANGED <<pc, outcome, start_full, end_full, available_tags, options, selected,
                 cur, attempts, calendar, calendar_links, threads, summary>>
  /\ UNCHANGED <<in_flight, channel, start_dt_in, end_dt_in, tagVars, remVars, wizVars, restVars>>

\* ForumTagView._cancel
Cancel ==
  /\ view = "open"
  /\ selected' = <<>>
  /\ view' = "stopped"
  /\ followups' = Say("Canceled.")
  /\ UNCHANGED <<pc, outcome, start_full, end_full, available_tags, options, cur,
                 attempts, calendar, calendar_links, threads, summary>>
  /\ UNCHANGED <<in_flight, channel, start_dt_in, end_dt_in, tagVars, remVars, wizVars, restVars>>

\* discord.ui.View(timeout=300): the view times out; wait() returns and
\* selected keeps what the last ForumTagSelect.callback stored
Timeout ==
  /\ view = "open"
  /\ view' = "timeout"
  /\ UNCHANGED <<pc, outcome, start_full, end_full, available_tags, options, selected,
                 cur, attempts, calendar, calendar_links, followups, threads, summary>>
  /\ UNCHANGED <<in_flight, channel, start_dt_in, end_dt_in, tagVars, remVars, wizVars, restVars>>

\* the forum's tags are edited while on_submit is suspended (the cached channel
\* object is updated in place).  on_submit reads available_tags when it builds
\* the picker and again in _resolve_forum_tags; every edit in between has the
\* effect of an edit right before the second read, where it is modelled.
EditTags(tags) ==
  /\ pc = "resolve"
  /\ tags \in Catalogs
  /\ tags # available_tags
  /\ available_tags' = tags
  /\ UNCHANGED <<pc, outcome, start_full, end_full, options, selected, view, cur,
                 attempts, calendar, calendar_links, followups, threads, summary>>
  /\ UNCHANGED <<in_flight, channel, start_dt_in, end_dt_in, tagVars, remVars, wizVars, restVars>>

----------------------------------------------------------------------------
(* DynamicEventModal.on_submit, after the wait on the tag picker *)

\* strftime("%m/%d") of a day
FmtMD(day) == [mm |-> day.m, dd |-> day.d]

\* strftime("%H:%M")
FmtHM(dt) == [hh |-> dt.hour, mi |-> dt.minute]

\* await tag_view.wait(); chosen_names = tag_view.selected; if not chosen_names: return
AfterWait ==
  /\ pc = "picker"
  /\ view \in {"stopped", "timeout"}
  /\ IF selected = <<>>
     THEN /\ pc' = "done"
          /\ outcome' = "Cancelled"
          /\ UNCHANGED cur
     ELSE /\ pc' = "materialize"
          /\ cur' = DateOf(start_full)
          /\ UNCHANGED outcome
  /\ UNCHANGED <<start_full, end_full, available_tags, options, selected, view,
                 attempts, calendar, calendar_links, followups, threads, summary>>
  /\ UNCHANGED <<in_flight, channel, start_dt_in, end_dt_in, tagVars, remVars, wizVars, restVars>>

\* the overnight shift taken only when the end is strictly before the start
DayIntervalStrict(day, s, e) ==
  LET start_dt == At(day, s.hour, s.minute)
      end_dt   == At(day, e.hour, e.minute)
  IN [start |-> start_dt,
      end   |-> IF DtLT(end_dt, start_dt) THEN NextDay(end_dt) ELSE end_dt]

\* the start taking the end's time of day and the end the start's
DayIntervalSwapped(day, s, e) ==
  LET start_dt == At(day, e.hour, e.minute)
      end_dt   == At(day, s.hour, s.minute)
  IN [start |-> start_dt,
      end   |-> IF DtLE(end_dt, start_dt) THEN NextDay(end_dt) ELSE end_dt]

\* start_dt = day.replace(hour=sh, minute=smin); end_dt = day.replace(hour=eh, minute=emin)
\* if end_dt <= start_dt: end_dt += timedelta(days=1)
DayInterval(day, s, e) ==
  LET start_dt == At(day, s.hour, s.minute)
      end_dt   == At(day, e.hour, e.minute)
  IN [start |-> start_dt,
      end   |-> IF DtLE(end_dt, start_dt) THEN NextDay(end_dt) ELSE end_dt]

\* the call started without being awaited: the loop goes on to the next day
InsertCallNoWait ==
  /\ pc \in {"materialize", "inserting"}
  /\ \E d \in Range(_daterange(DateOf(start_full), DateOf(end_full))) :
       /\ d \notin in_flight
       /\ \A i \in DOMAIN attempts : attempts[i].day # d
       /\ in_flight' = in_flight \cup {d}
  /\ pc' = "inserting"
  /\ UNCHANGED <<outcome, start_full, end_full, available_tags, options, selected, view,
                 cur, attempts, calendar, calendar_links, followups, threads, summary>>
  /\ UNCHANGED <<channel, start_dt_in, end_dt_in, tagVars, remVars, wizVars, restVars>>

\* "for day in _daterange(start_day, end_day)": the next day's interval is built
\* and gcal_insert_event is called; on_submit is suspended at the await
InsertCall ==
  /\ pc = "materialize"
  /\ MoreDays(cur, DateOf(end_full))
  /\ in_flight' = in_flight \cup {cur}
  /\ pc' = "inserting"
  /\ UNCHANGED <<outcome, start_full, end_full, available_tags, options, selected, view,
                 cur, attempts, calendar, calendar_links, followups, threads, summary>>
  /\ UNCHANGED <<channel, start_dt_in, end_dt_in, tagVars, remVars, wizVars, restVars>>

\* a failed insert leaving the loop
InsertDayBreaks(result) ==
  /\ pc = "inserting"
  /\ cur \in in_flight
  /\ result \in InsertResults
  /\ LET iv == DayInterval(cur, start_full, end_full) IN
     /\ attempts' = Append(attempts, [day |-> cur, start |-> iv.start, end |-> iv.end,
                                      result |-> result])
     /\ calendar' = IF result = "error" THEN calendar
                    ELSE Append(calendar, [start |-> iv.start, end |-> iv.end])
     /\ calendar_links' = IF result = "link" THEN Append(calendar_links, [day |-> cur])
                          ELSE calendar_links
     /\ followups' = IF result = "error" THEN SayArg("Calendar error", cur) ELSE followups
  /\ in_flight' = in_flight \ {cur}
  /\ cur' = NextDay(cur)
  /\ pc' = IF result # "error" /\ MoreDays(NextDay(cur), DateOf(end_full))
           THEN "materialize" ELSE "resolve"
  /\ UNCHANGED <<outcome, start_full, end_full, available_tags, options, selected, view,
                 threads, summary>>
  /\ UNCHANGED <<channel, start_dt_in, end_dt_in, tagVars, remVars, wizVars, restVars>>

\* the awaited gcal_insert_event of the day returns or raises (lines 198-209):
\* the link is kept, or the error is reported, and the loop goes on
InsertDay(result) ==
  /\ pc = "inserting"
  /\ cur \in in_flight
  /\ result \in InsertResults
  /\ LET iv == DayInterval(cur, start_full, end_full) IN
     /\ attempts' = Append(attempts, [day |-> cur, start |-> iv.start, end |-> iv.end,
                                      result |-> result])
     /\ calendar' = IF result = "error" THEN calendar
                    ELSE Append(calendar, [start |-> iv.start, end |-> iv.end])
     /\ calendar_links' = IF result = "link" THEN Append(calendar_links, [day |-> cur])
                          ELSE calendar_links
     /\ followups' = IF result = "error" THEN SayArg("Calendar error", cur) ELSE followups
  /\ in_flight' = in_flight \ {cur}
  /\ cur' = NextDay(cur)
  /\ pc' = IF MoreDays(NextDay(cur), DateOf(end_full)) THEN "materialize" ELSE "resolve"
  /\ UNCHANGED <<outcome, start_full, end_full, available_tags, options, selected, view,
                 threads, summary>>
  /\ UNCHANGED <<channel, start_dt_in, end_dt_in, tagVars, remVars, wizVars, restVars>>

\* when_lines: one line per day of _daterange(start_day, end_day)
WhenLines(s, e) ==
  LET days == _daterange(DateOf(s), DateOf(e)) IN
  [i \in DOMAIN days |-> [day |-> days[i], date |-> FmtMD(days[i]),
                          from |-> FmtHM(s), to |-> FmtHM(e)]]

\* title_prefix comparing the whole datetimes
TitlePrefixByInstant(s, e) ==
  IF s = e THEN <<FmtMD(DateOf(s))>>
  ELSE <<FmtMD(DateOf(s)), FmtMD(DateOf(e))>>

\* title_prefix: MM/DD, or MM/DD-MM/DD when the dates differ
TitlePrefix(s, e) ==
  IF DateOf(s) = DateOf(e) THEN <<FmtMD(DateOf(s))>>
  ELSE <<FmtMD(DateOf(s)), FmtMD(DateOf(e))>>

\* the "Calendar" field listing every link
CalFieldNoCap(s, e, links) ==
  IF links = <<>> THEN [present |-> FALSE]
  ELSE IF Len(links) = 1
  THEN [present |-> TRUE, labels |-> <<[label |-> "Google Calendar", link |-> links[1]]>>,
        more |-> 0]
  ELSE LET days == _daterange(DateOf(s), DateOf(e))
           n == IF Len(links) < Len(days) THEN Len(links) ELSE Len(days)
           labels == [i \in 1..n |-> [label |-> FmtMD(days[i]), link |-> links[i]]]
       IN [present |-> TRUE, labels |-> labels, more |-> 0]

\* the "Calendar" field: absent without links, one link, or up to three
\* day-labelled links and a "+N more" count
CalField(s, e, links) ==
  IF links = <<>> THEN [present |-> FALSE]
  ELSE IF Len(links) = 1
  THEN [present |-> TRUE, labels |-> <<[label |-> "Google Calendar", link |-> links[1]]>>,
        more |-> 0]
  ELSE LET days == _daterange(DateOf(s), DateOf(e))
           n == IF Len(links) < Len(days) THEN Len(links) ELSE Len(days)
           labels == [i \in 1..n |-> [label |-> FmtMD(days[i]), link |-> links[i]]]
       IN [present |-> TRUE, labels |-> Take(labels, MaxInlineLinks),
           more |-> IF Len(links) > MaxInlineLinks THEN Len(links) - MaxInlineLinks ELSE 0]

\* the embed of lines 218-246 and the tags handed to create_thread (tags[:5])
BuildSummary(s, e, chosen, links, tags) ==
  [title_prefix |-> TitlePrefix(s, e),
   when_lines   |-> WhenLines(s, e),
   tags_field   |-> chosen,
   cal_field    |-> CalField(s, e, links),
   applied_tags |-> Take(tags, MaxTags)]

\* "if not tags" deleting the entries made so far
NoValidTagsRollback(msgs) ==
  /\ FlowEnds("NoValidTags", Append(msgs, Msg("No valid tags selected. Aborting post.", <<>>)))
  /\ calendar' = <<>>
  /\ UNCHANGED <<summary, threads>>

\* "if not tags" without its return: the thread is created with no tags
NoValidTagsPosts(msgs) ==
  /\ FlowEnds("Done", Append(msgs, Msg("Event posted.", <<>>)))
  /\ summary' = BuildSummary(start_full, end_full, selected, calendar_links, <<>>)
  /\ threads' = Append(threads, summary')
  /\ UNCHANGED calendar

\* "if not tags": report and return, nothing else is touched
NoValidTags(msgs) ==
  /\ FlowEnds("NoValidTags", Append(msgs, Msg("No valid tags selected. Aborting post.", <<>>)))
  /\ UNCHANGED <<summary, calendar, threads>>

\* lines 211-246: resolve the chosen names, report the missing ones, build the embed
ResolveTags ==
  /\ pc = "resolve"
  /\ LET r == _resolve_forum_tags(available_tags, selected)
         tags == r[1]
         missing == r[2]
         msgs == IF missing # <<>> THEN SayArg("Missing forum tags in this channel", missing)
                 ELSE followups
     IN IF tags = <<>>
        THEN NoValidTags(msgs)
        ELSE /\ followups' = msgs
             /\ summary' = BuildSummary(start_full, end_full, selected, calendar_links, tags)
             /\ pc' = "posting"
             /\ UNCHANGED <<outcome, calendar, threads>>
  /\ UNCHANGED <<start_full, end_full, available_tags, options, selected, view, cur,
                 attempts, calendar_links>>
  /\ UNCHANGED <<in_flight, channel, start_dt_in, end_dt_in, tagVars, remVars, wizVars, restVars>>

\* lines 248-254: await channel.create_thread(...), then "Event posted."; an
\* exception of create_thread is not caught by on_submit
PostThread(ok) ==
  /\ pc = "posting"
  /\ pc' = "done"
  /\ IF ok
     THEN /\ threads' = Append(threads, summary)
          /\ followups' = Say("Event posted.")
          /\ outcome' = "Done"
     ELSE /\ outcome' = "Raised"
          /\ UNCHANGED <<threads, followups>>
  /\ UNCHANGED <<start_full, end_full, available_tags, options, selected, view, cur,
                 attempts, calendar, calendar_links, summary>>
  /\ UNCHANGED <<in_flight, channel, start_dt_in, end_dt_in, tagVars, remVars, wizVars, restVars>>

----------------------------------------------------------------------------
(* _resolve_forum_tags applied to bounded inputs *)

\* the longest tag list and the longest list of requested names
MaxCat == 2
MaxReq == 3

NotRun == [run |-> FALSE]

\* the returned pair (found, missing)
Returned(r) == [run |-> TRUE, found |-> r[1], missing |-> r[2]]

nGamesLower    == <<"g", "a", "m", "e", "s">>
nGamesPadded   == <<" ", "G", "A", "M", "E", "S">>
nYardSaleTyped == <<"y", "a", "r", "d", " ", "s", "a", "l", "e", " ">>
nBooks         == <<"B", "o", "o", "k", "s">>

TagPool  == { tagGames, tagYardSale, [id |-> 3, name |-> nGamesPadded],
              [id |-> 4, name |-> nBooks] }
NamePool == { nYardSaleTyped, nGames, nGamesLower, nBooks, nNoTags }

Resolve ==
  /\ t_result = NotRun
  /\ t_result' = Returned(_resolve_forum_tags(t_channel, t_names))
  /\ UNCHANGED <<t_channel, t_names>>
  /\ UNCHANGED <<flowVars, remVars, wizVars, restVars>>

----------------------------------------------------------------------------
(* Reminders.reminder_loop *)

\* REMIND_MINUTES = int(os.getenv("REMIND_MINUTES", "60"))
REMIND_MINUTES == 60

\* gcal_list(..., max_items=50)
MaxItems == 50

\* the last minute at which a tick starts
MaxTime == 3

\* tag = f"T-{REMIND_MINUTES}"
ReminderTag == <<"T-", REMIND_MINUTES>>

\* the calendar read by the loop: an entry has start.dateTime (timed) or only
\* start.date (all-day); times in minutes
RemCalendar ==
  << [id |-> "e1", timed |-> TRUE,  start |-> 2,  end |-> 30],
     [id |-> "e2", timed |-> FALSE, start |-> 0,  end |-> 1440],
     [id |-> "e3", timed |-> TRUE,  start |-> 61, end |-> 90] >>

\* events_map rows (thread_id, channel_id) by event id
EventsMap ==
  [e \in {"e1", "e2", "e3"} |->
     IF e = "e1" THEN <<[has |-> TRUE, thread_id |-> 11, channel_id |-> 5]>>
     ELSE IF e = "e3" THEN <<[has |-> TRUE, thread_id |-> 0, channel_id |-> 5]>>
     ELSE <<>>]

\* events().list(timeMin, timeMax, singleEvents, orderBy=startTime, maxResults):
\* the entries ending after timeMin and starting before timeMax, by start time
RECURSIVE FilterSeq(_, _, _)
FilterSeq(s, lo, hi) ==
  IF s = <<>> THEN <<>>
  ELSE IF Head(s).end > lo /\ Head(s).start < hi
       THEN <<Head(s)>> \o FilterSeq(Tail(s), lo, hi)
       ELSE FilterSeq(Tail(s), lo, hi)

RECURSIVE InsertByStart(_, _)
InsertByStart(s, x) ==
  IF s = <<>> THEN <<x>>
  ELSE IF x.start < Head(s).start THEN <<x>> \o s
       ELSE <<Head(s)>> \o InsertByStart(Tail(s), x)

RECURSIVE SortByStart(_)
SortByStart(s) ==
  IF s = <<>> THEN <<>> ELSE InsertByStart(SortByStart(Tail(s)), Head(s))

gcal_list(time_min, time_max, max_items) ==
  Take(SortByStart(FilterSeq(RemCalendar, time_min, time_max)), max_items)

\* an exception that one of reminder_loop's except clauses dropped
Failure(kind, event_id, at) == [kind |-> kind, event_id |-> event_id, at |-> at]

\* a tick that waits while a tag picker is open
TickStartAfterFlows(fetch_ok) ==
  /\ view # "open"
  /\ loop_state = "sleeping"
  /\ now <= MaxTime
  /\ IF fetch_ok
     THEN /\ items' = gcal_list(now, now + REMIND_MINUTES, MaxItems)
          /\ idx' = 1
          /\ loop_state' = "iterating"
          /\ last_fetch' = "ok"
          /\ UNCHANGED <<now, failures>>
     ELSE /\ last_fetch' = "failed"
          /\ now' = now + 1
          /\ failures' = failures \cup {Failure("fetch", "", now)}
          /\ UNCHANGED <<items, idx, loop_state>>
  /\ UNCHANGED <<table_exists, reminder_log, alerts, lookup>>
  /\ UNCHANGED <<flowVars, tagVars, wizVars, restVars>>

\* lines 26-34: the window, the fetch; a failed fetch ends the tick
TickStart(fetch_ok) ==
  /\ loop_state = "sleeping"
  /\ now <= MaxTime
  /\ IF fetch_ok
     THEN /\ items' = gcal_list(now, now + REMIND_MINUTES, MaxItems)
          /\ idx' = 1
          /\ loop_state' = "iterating"
          /\ last_fetch' = "ok"
          /\ UNCHANGED <<now, failures>>
     ELSE /\ last_fetch' = "failed"
          /\ now' = now + 1
          /\ failures' = failures \cup {Failure("fetch", "", now)}
          /\ UNCHANGED <<items, idx, loop_state>>
  /\ UNCHANGED <<table_exists, reminder_log, alerts, lookup>>
  /\ UNCHANGED <<flowVars, tagVars, wizVars, restVars>>

\* the lookup with the entry's channel tried before its thread
ResolveTargetChannelFirst(event_id, thread_ok, chan_ok, default_ok) ==
  LET row == EventsMap[event_id]
      got_channel == row # <<>> /\ row[1].channel_id # 0 /\ chan_ok
      got_thread  == row # <<>> /\ ~got_channel /\ row[1].thread_id # 0 /\ thread_ok
  IN IF got_channel THEN "channel"
     ELSE IF got_thread THEN "thread"
     ELSE IF default_ok THEN "default"
     ELSE "none"

\* lines 54-70: thread of the entry, else its channel, else the events channel
ResolveTarget(event_id, thread_ok, chan_ok, default_ok) ==
  LET row == EventsMap[event_id]
      got_thread  == row # <<>> /\ row[1].thread_id # 0 /\ thread_ok
      got_channel == row # <<>> /\ ~got_thread /\ row[1].channel_id # 0 /\ chan_ok
  IN IF got_thread THEN "thread"
     ELSE IF got_channel THEN "channel"
     ELSE IF default_ok THEN "default"
     ELSE "none"

\* the window test without "minutes_left < 0"
DueNoLowerBound(ev, t) == ev.timed /\ ev.start - t <= REMIND_MINUTES

\* lines 38-47: a timed entry whose minutes_left lies in [0, REMIND_MINUTES]
Due(ev, t) == ev.timed /\ ev.start - t >= 0 /\ ev.start - t <= REMIND_MINUTES

\* SELECT 1 FROM reminder_log WHERE event_id=? AND tag=?
Seen(event_id, tag) == <<event_id, tag>> \in reminder_log

\* one INSERT marking every entry of the fetch
SendAndMarkAll(ev, target, send_ok, write_ok) ==
  /\ alerts' = IF send_ok
               THEN Append(alerts, [event_id |-> ev.id, tag |-> ReminderTag,
                                    at |-> now, target |-> target])
               ELSE alerts
  /\ reminder_log' = IF send_ok /\ write_ok /\ table_exists
                     THEN reminder_log \cup {<<items[i].id, ReminderTag>> : i \in DOMAIN items}
                     ELSE reminder_log

\* the marker written before the send
SendAndMarkFirst(ev, target, send_ok, write_ok) ==
  /\ alerts' = IF send_ok
               THEN Append(alerts, [event_id |-> ev.id, tag |-> ReminderTag,
                                    at |-> now, target |-> target])
               ELSE alerts
  /\ reminder_log' = IF write_ok /\ table_exists
                     THEN reminder_log \cup {<<ev.id, ReminderTag>>}
                     ELSE reminder_log

\* lines 76-86: send, then INSERT OR REPLACE INTO reminder_log; an exception
\* of either is dropped
SendAndMark(ev, target, send_ok, write_ok) ==
  /\ alerts' = IF send_ok
               THEN Append(alerts, [event_id |-> ev.id, tag |-> ReminderTag,
                                    at |-> now, target |-> target])
               ELSE alerts
  /\ reminder_log' = IF send_ok /\ write_ok /\ table_exists
                     THEN reminder_log \cup {<<ev.id, ReminderTag>>}
                     ELSE reminder_log

\* no target was looked up in the pass
NoLookup == [event_id |-> "", thread |-> FALSE, channel |-> FALSE, default |-> FALSE]

\* what lines 55-68 found: whether the thread could be obtained, whether
\* get_channel(chan_id) and get_channel(EVENT_CHANNEL_ID) returned a channel
Lookup(event_id, thread_ok, chan_ok, default_ok) ==
  [event_id |-> event_id, thread |-> thread_ok, channel |-> chan_ok, default |-> default_ok]

\* one pass of "for ev in items" (lines 35-86)
ProcessItem(thread_ok, chan_ok, default_ok, send_ok, write_ok) ==
  /\ loop_state = "iterating"
  /\ idx <= Len(items)
  /\ LET ev == items[idx] IN
     IF ~Due(ev, now)
     THEN /\ idx' = idx + 1
          /\ lookup' = NoLookup
          /\ UNCHANGED <<loop_state, reminder_log, alerts, failures>>
     ELSE IF ~table_exists
     THEN \* db_fetchone raises outside any try: the task ends
          /\ loop_state' = "dead"
          /\ lookup' = NoLookup
          /\ UNCHANGED <<idx, reminder_log, alerts, failures>>
     ELSE IF Seen(ev.id, ReminderTag)
     THEN /\ idx' = idx + 1
          /\ lookup' = NoLookup
          /\ UNCHANGED <<loop_state, reminder_log, alerts, failures>>
     ELSE LET target == ResolveTarget(ev.id, thread_ok, chan_ok, default_ok) IN
          /\ idx' = idx + 1
          /\ lookup' = Lookup(ev.id, thread_ok, chan_ok, default_ok)
          /\ UNCHANGED loop_state
          /\ IF target = "none"
             THEN UNCHANGED <<reminder_log, alerts, failures>>
             ELSE /\ SendAndMark(ev, target, send_ok, write_ok)
                  /\ failures' = IF send_ok THEN failures
                                 ELSE failures \cup {Failure("send", ev.id, now)}
  /\ UNCHANGED <<now, items, table_exists, last_fetch>>
  /\ UNCHANGED <<flowVars, tagVars, wizVars, restVars>>

\* the tick given up after a failed send
TickEndAfterFailure ==
  /\ loop_state = "iterating"
  /\ idx > Len(items) \/ \E f \in failures : f.kind = "send" /\ f.at = now
  /\ loop_state' = "sleeping"
  /\ now' = now + 1
  /\ UNCHANGED <<items, idx, table_exists, reminder_log, alerts, last_fetch, lookup,
                 failures>>
  /\ UNCHANGED <<flowVars, tagVars, wizVars, restVars>>

\* the for loop is exhausted: the task sleeps 60 seconds
TickEnd ==
  /\ loop_state = "iterating"
  /\ idx > Len(items)
  /\ loop_state' = "sleeping"
  /\ now' = now + 1
  /\ UNCHANGED <<items, idx, table_exists, reminder_log, alerts, last_fetch, lookup,
                 failures>>
  /\ UNCHANGED <<flowVars, tagVars, wizVars, restVars>>

----------------------------------------------------------------------------
(* cogs/event_wizard.py: the /event_wizard command, the module-level draft *)
(* table _WIZ_STATE and the component callbacks of its two pages.  A       *)
(* dialog is one ephemeral wizard message; only the operator who ran the   *)
(* command sees it and can use its components.                             *)

\* the most wizard messages opened, and the most wizard steps taken
MaxDialogs  == 2
MaxWizSteps == 6

\* the operators (interaction.user.id)
Operators == {1, 2}

\* the operator where one is followed
CmdOperators == {1}

\* datetime.now(TZ), as a date
NowDate == [y |-> 2025, m |-> 3, d |-> 31]

nInPerson == <<"I", "n", " ", "p", "e", "r", "s", "o", "n">>
nOnline   == <<"O", "n", "l", "i", "n", "e">>
nNight    == <<"G", "a", "m", "e", " ", "n", "i", "g", "h", "t", " ">>
nBlank    == <<" ">>
nCafe     == <<"C", "a", "f", "e">>

\* the configured option lists of ModeSelect and TagMultiSelect
MODE_CHOICES  == <<nInPerson, nOnline>>
INTEREST_TAGS == <<nGames, nOnline>>

\* the guild's role names
GuildRoles == {nOnline, nGames}

\* what the operator types into EventDetailsModal
DetailsInputs ==
  { [title |-> nNight, location |-> nCafe, details |-> <<>>],
    [title |-> nBlank, location |-> <<>>,  details |-> <<>>] }

\* what the operator picks in the selects of the two pages
ModeValues   == {<<>>, <<nOnline>>}
TagValues    == {<<>>, <<nGames>>, <<nOnline, nGames>>}
YearValues   == {NowDate.y + 1}
MonthValues  == {2}
DayValues    == {1, 31}
HourValues   == {22}
MinuteValues == {30}

\* a dict: a function from its keys; {} is the empty dict
EmptyDict == <<>>

Put(dict, k, v) == [x \in DOMAIN dict \cup {k} |-> IF x = k THEN v ELSE dict[x]]

\* dict.get(k, default)
Get(dict, k, default) == IF k \in DOMAIN dict THEN dict[k] ELSE default

\* dict.setdefault(k, default), as the dict afterwards
SetDefault(dict, k, default) == IF k \in DOMAIN dict THEN dict ELSE Put(dict, k, default)

\* Python's None in a text field: only its falsity is read, as of ""
None == <<>>

\* the key a component uses: a single module-wide slot
StateKeyShared(dlg) == CHOOSE u \in Operators : \A v \in Operators : u <= v

\* the key a component uses in _WIZ_STATE: self.user_id
StateKey(dlg) == dlg.user_id

\* st = _WIZ_STATE.setdefault(self.user_id, {}); st[k] = v
StoreField(dlg, k, v) ==
  LET key == StateKey(dlg)
      tbl == SetDefault(_WIZ_STATE, key, EmptyDict)
  IN Put(tbl, key, Put(tbl[key], k, v))

NoStep == [user_id |-> 0, dialog |-> 0, kind |-> "none", reply |-> "", channel_id |-> 0]

\* one more wizard step: operator u uses dialog i (0: a refused command)
WizStep(u, i, kind, reply) ==
  /\ wiz_steps < MaxWizSteps
  /\ wiz_steps' = wiz_steps + 1
  /\ wiz_last' = [user_id |-> u, dialog |-> i, kind |-> kind, reply |-> reply,
                  channel_id |-> 0]

\* one more step that is a slash command invoked in channel channel_id
CmdStep(u, i, kind, reply, channel_id) ==
  /\ wiz_steps < MaxWizSteps
  /\ wiz_steps' = wiz_steps + 1
  /\ wiz_last' = [user_id |-> u, dialog |-> i, kind |-> kind, reply |-> reply,
                  channel_id |-> channel_id]

\* the id of the target events channel and of the channel commands may also
\* be started from
EVENT_CHANNEL_ID == 5
CREATE_FROM_CHANNEL_ID == 6

\* a channel that is neither
OtherChannel == CREATE_FROM_CHANNEL_ID + 1

\* interaction.channel_id of a command
Channels == {EVENT_CHANNEL_ID, CREATE_FROM_CHANNEL_ID, OtherChannel}

\* a command accepted wherever it is invoked
AllowedSourceAnywhere(channel_id) == TRUE

\* allowed_sources = {c for c in [EVENT_CHANNEL_ID, CREATE_FROM_CHANNEL_ID] if c};
\* not (allowed_sources and interaction.channel_id not in allowed_sources)
AllowedSource(channel_id) ==
  LET allowed_sources == {c \in {EVENT_CHANNEL_ID, CREATE_FROM_CHANNEL_ID} : c # 0}
  IN allowed_sources = {} \/ channel_id \in allowed_sources

\* EventWizard.event_wizard: refused outside the allowed channels, else the
\* operator's draft is reset to {} and page 1 is sent
event_wizard(u, channel_id) ==
  /\ IF ~AllowedSource(channel_id)
     THEN /\ CmdStep(u, 0, "refused", "Start the wizard in the events or create channel only.",
                     channel_id)
          /\ UNCHANGED <<_WIZ_STATE, dialogs>>
     ELSE /\ Len(dialogs) < MaxDialogs
          /\ CmdStep(u, Len(dialogs) + 1, "command", "Configure mode/tags and details:",
                     channel_id)
          /\ _WIZ_STATE' = Put(_WIZ_STATE, u, EmptyDict)
          /\ dialogs' = Append(dialogs, [user_id |-> u, page |-> 1, modal |-> FALSE,
                                         live |-> TRUE, children |-> <<>>])
  /\ UNCHANGED <<wiz_calls, event_tags, channel_msgs>>
  /\ UNCHANGED <<flowVars, tagVars, remVars, restVars>>

\* a component of page p of dialog i can be used
Usable(i, p) == i \in DOMAIN dialogs /\ dialogs[i].live /\ dialogs[i].page = p

\* a select callback that stores one field and re-renders its view
SelectField(i, p, kind, k, v) ==
  /\ Usable(i, p)
  /\ WizStep(dialogs[i].user_id, i, kind, "")
  /\ _WIZ_STATE' = StoreField(dialogs[i], k, v)
  /\ UNCHANGED <<wiz_calls, event_tags, channel_msgs>>
  /\ UNCHANGED <<flowVars, tagVars, remVars, restVars>>

\* ModeSelect.callback: st["mode"] = self.values[0] if self.values else None
ModeSelect(i, values) ==
  /\ SelectField(i, 1, "mode", "mode", IF values # <<>> THEN values[1] ELSE None)
  /\ UNCHANGED dialogs

\* TagMultiSelect.callback: st["tags"] = list(self.values)
TagMultiSelect(i, values) ==
  /\ SelectField(i, 1, "tags", "tags", values)
  /\ UNCHANGED dialogs

\* EventWizardPage1.details: send_modal(EventDetailsModal(self.user_id))
details(i) ==
  /\ Usable(i, 1)
  /\ ~dialogs[i].modal
  /\ WizStep(dialogs[i].user_id, i, "details", "")
  /\ dialogs' = [dialogs EXCEPT ![i].modal = TRUE]
  /\ UNCHANGED <<_WIZ_STATE, wiz_calls, event_tags, channel_msgs>>
  /\ UNCHANGED <<flowVars, tagVars, remVars, restVars>>

\* EventDetailsModal.on_submit: the three stripped texts are stored and the
\* message gets a new EventWizardPage1
DetailsSubmit(i, inp) ==
  /\ i \in DOMAIN dialogs
  /\ dialogs[i].modal
  /\ WizStep(dialogs[i].user_id, i, "title", "Saved details. Continue configuring below:")
  /\ LET key == StateKey(dialogs[i])
         tbl == SetDefault(_WIZ_STATE, key, EmptyDict)
         st  == Put(Put(Put(tbl[key], "title", StrStrip(inp.title)),
                        "location", StrStrip(inp.location)),
                    "details", StrStrip(inp.details))
     IN _WIZ_STATE' = Put(tbl, key, st)
  /\ dialogs' = [dialogs EXCEPT ![i].modal = FALSE, ![i].page = 1, ![i].live = TRUE]
  /\ UNCHANGED <<wiz_calls, event_tags, channel_msgs>>
  /\ UNCHANGED <<flowVars, tagVars, remVars, restVars>>

\* calendar.monthrange(y, m)[1]
LastDay(y, m) == DaysInMonth(y, m)

\* a select of page 2; start_day and end_day are 0 unless it is a DaySelect
Item(type, start_day, end_day) ==
  [type |-> type, start_day |-> start_day, end_day |-> end_day]

\* lines 205-212: one DaySelect, or two when the month has more than 25 days
NewDaySelects(last_day) ==
  IF last_day <= 25 THEN <<Item("DaySelect", 1, last_day)>>
  ELSE <<Item("DaySelect", 1, 16), Item("DaySelect", 17, last_day)>>

\* the day selects added next to the ones the view already has
build_day_selects_keep(children, tbl, key) ==
  LET st == Get(tbl, key, EmptyDict)
  IN children \o NewDaySelects(LastDay(Get(st, "year", NowDate.y),
                                       Get(st, "month", NowDate.m)))

\* build_day_selects, as the view's children afterwards: the DaySelects it
\* has are removed and those of the draft's year and month are added
build_day_selects(children, tbl, key) ==
  LET st == Get(tbl, key, EmptyDict)
      others == SelectSeq(children, LAMBDA c : c.type # "DaySelect")
  IN others \o NewDaySelects(LastDay(Get(st, "year", NowDate.y),
                                     Get(st, "month", NowDate.m)))

\* EventWizardPage2.__init__, lines 176-189: the selects it adds, in order
Page2Children(tbl, key) ==
  build_day_selects(<<Item("YearSelect", 0, 0), Item("MonthSelect", 0, 0)>>, tbl, key)
  \o <<Item("HourSelect", 0, 0), Item("MinuteSelect", 0, 0)>>

\* EventWizardPage2.__init__: year, month, day default to today
Page2Defaults(tbl, key) ==
  LET t0 == SetDefault(tbl, key, EmptyDict)
      st == SetDefault(SetDefault(SetDefault(t0[key], "year", NowDate.y),
                                  "month", NowDate.m), "day", NowDate.d)
  IN Put(t0, key, st)

\* EventWizardPage1.next: the message gets a new EventWizardPage2
next(i) ==
  /\ Usable(i, 1)
  /\ WizStep(dialogs[i].user_id, i, "next", "Pick date and time:")
  /\ LET key == StateKey(dialogs[i])
         tbl == Page2Defaults(_WIZ_STATE, key)
     IN /\ _WIZ_STATE' = tbl
        /\ dialogs' = [dialogs EXCEPT ![i].page = 2,
                                      ![i].children = Page2Children(tbl, key)]
  /\ UNCHANGED <<wiz_calls, event_tags, channel_msgs>>
  /\ UNCHANGED <<flowVars, tagVars, remVars, restVars>>

\* EventWizardPage2.back: the message gets a new EventWizardPage1
back(i) ==
  /\ Usable(i, 2)
  /\ WizStep(dialogs[i].user_id, i, "back", "Configure mode/tags and details:")
  /\ dialogs' = [dialogs EXCEPT ![i].page = 1]
  /\ UNCHANGED <<_WIZ_STATE, wiz_calls, event_tags, channel_msgs>>
  /\ UNCHANGED <<flowVars, tagVars, remVars, restVars>>

\* YearSelect.callback / MonthSelect.callback: the field is stored and the day
\* selects are rebuilt (refresh_days)
YearMonthSelect(i, k, v) ==
  /\ SelectField(i, 2, k, k, v)
  /\ dialogs' = [dialogs EXCEPT ![i].children =
                   build_day_selects(@, _WIZ_STATE', StateKey(dialogs[i]))]

YearSelect(i, y) == YearMonthSelect(i, "year", y)

MonthSelect(i, m) == YearMonthSelect(i, "month", m)

\* DaySelect.callback: one of the days the selects were built with
DaySelect(i, d) ==
  /\ i \in DOMAIN dialogs
  /\ \E c \in Range(dialogs[i].children) :
       c.type = "DaySelect" /\ d \in c.start_day..c.end_day
  /\ SelectField(i, 2, "day", "day", d)
  /\ UNCHANGED dialogs

\* HourSelect.callback
HourSelect(i, h) ==
  /\ SelectField(i, 2, "hour", "hour", h)
  /\ UNCHANGED dialogs

\* MinuteSelect.callback
MinuteSelect(i, mi) ==
  /\ SelectField(i, 2, "minute", "minute", mi)
  /\ UNCHANGED dialogs

\* discord.ui.View(timeout=600): the dialog's view expires; the module has no
\* on_timeout
ViewTimeout(i) ==
  /\ i \in DOMAIN dialogs
  /\ dialogs[i].live
  /\ WizStep(dialogs[i].user_id, i, "timeout", "")
  /\ dialogs' = [dialogs EXCEPT ![i].live = FALSE]
  /\ UNCHANGED <<_WIZ_STATE, wiz_calls, event_tags, channel_msgs>>
  /\ UNCHANGED <<flowVars, tagVars, remVars, restVars>>

\* how create's try block (lines 253-279) can end: at the calendar insert, at
\* an event_tags upsert, at the post of the embed, at the role ping, or not at all
CreateResults == {"ok", "insert_error", "tags_error", "post_error", "ping_error"}

\* datetime() accepting any day up to 31
ValidDateTimeAnyDay(y, m, d, hh, mm) ==
  /\ y \in 1..9999
  /\ m \in 1..12
  /\ d \in 1..31
  /\ hh \in 0..23
  /\ mm \in 0..59

\* datetime(y, m, d, hh, mm): ValueError unless the fields form a date and time
ValidDateTime(y, m, d, hh, mm) ==
  /\ y \in 1..9999
  /\ m \in 1..12
  /\ d \in 1..DaysInMonth(y, m)
  /\ hh \in 0..23
  /\ mm \in 0..59

\* dt + timedelta(minutes=60)
PlusHour(dt) ==
  IF dt.hour < 23 THEN [dt EXCEPT !.hour = @ + 1]
  ELSE NextDay([dt EXCEPT !.hour = 0])

\* tags = [norm_tag(t) for t in st.get("tags", [])]; the mode goes first when
\* it is set and not among them
CreateTags(st) ==
  LET chosen == Get(st, "tags", <<>>)
      tags == [i \in DOMAIN chosen |-> StrStrip(chosen[i])]
      mode == Get(st, "mode", None)
  IN IF mode # <<>> /\ mode \notin Range(tags) THEN <<mode>> \o tags ELSE tags

\* the request body of lines 238-244
CreateBody(st, start_local) ==
  [summary     |-> st["title"],
   location    |-> Get(st, "location", <<>>),
   description |-> Get(st, "details", <<>>),
   start       |-> start_local,
   end         |-> PlusHour(start_local)]

\* lines 259-270: the mode's role, then the role of the first other tag that
\* is a role
RolesToPing(st, tags) ==
  LET mode == Get(st, "mode", None)
      first == IF mode # <<>> /\ mode \in GuildRoles THEN <<mode>> ELSE <<>>
      others == {i \in DOMAIN tags : tags[i] # mode /\ tags[i] \in GuildRoles}
  IN IF others = {} THEN first
     ELSE first \o <<tags[CHOOSE i \in others : \A j \in others : i <= j]>>

\* how _post_event_embed went on after channel.send: the private thread was
\* created or not (first except), the events_map row was written or not
\* (second except)
EmbedResults == {"thread_row", "nothread_row", "norow"}

\* _post_event_embed, lines 41-59: the row written for message msg_id of
\* event event_id; a thread started from a message carries the message's id,
\* 0 stands for None
_post_event_embed(msg_id, event_id, emb) ==
  IF emb = "norow" THEN events_map
  ELSE {r \in events_map : r.discord_message_id # msg_id}
       \cup {[discord_message_id |-> msg_id, event_id |-> event_id,
               channel_id |-> EVENT_CHANNEL_ID,
               thread_id |-> IF emb = "thread_row" THEN msg_id ELSE 0]}

\* the rows written although the calendar insert failed
UpsertedTagsBeforeInsert(result, n, tags, k) ==
  IF result = "tags_error" THEN {<<n, tags[j]>> : j \in 1..k}
  ELSE {<<n, tags[j]>> : j \in DOMAIN tags}

\* event = await gcal_insert_event(body); for t in tags: INSERT OR REPLACE
\* INTO event_tags(event_id, tag): the rows written for entry n; none when
\* the insert raises, the first k when the upsert of tag k+1 raises
UpsertedTags(result, n, tags, k) ==
  IF result = "insert_error" THEN {}
  ELSE IF result = "tags_error" THEN {<<n, tags[j]>> : j \in 1..k}
  ELSE {<<n, tags[j]>> : j \in DOMAIN tags}

\* EventWizardPage2.create
create(i, chan_ok, result, emb) ==
  /\ Usable(i, 2)
  /\ result \in CreateResults
  /\ emb \in EmbedResults
  /\ LET u  == dialogs[i].user_id
         st == Get(_WIZ_STATE, StateKey(dialogs[i]), EmptyDict)
     IN
     IF Get(st, "title", <<>>) = <<>>
     THEN /\ WizStep(u, i, "no_title", "Please click Enter/Update Details and add a title first.")
          /\ UNCHANGED <<wiz_calls, event_tags, channel_msgs, events_map>>
     ELSE IF \/ {"year", "month", "day"} \ DOMAIN st # {}
             \/ ~ValidDateTime(st["year"], st["month"], st["day"],
                               Get(st, "hour", 18), Get(st, "minute", 0))
     THEN /\ WizStep(u, i, "date_error", "Date/time error")
          /\ UNCHANGED <<wiz_calls, event_tags, channel_msgs, events_map>>
     ELSE IF ~chan_ok
     THEN /\ WizStep(u, i, "no_channel", "I can't find the target events channel. Check EVENT_CHANNEL_ID.")
          /\ UNCHANGED <<wiz_calls, event_tags, channel_msgs, events_map>>
     ELSE LET start_local == [y |-> st["year"], m |-> st["month"], d |-> st["day"],
                              hour |-> Get(st, "hour", 18), minute |-> Get(st, "minute", 0)]
              tags == CreateTags(st)
              body == CreateBody(st, start_local)
              n    == Len(wiz_calls) + 1
              pings == RolesToPing(st, tags)
              posted == Append(channel_msgs, [kind |-> "embed", event |-> n, body |-> body])
          IN
          /\ result = "ping_error" => pings # <<>>
          /\ result = "tags_error" => tags # <<>>
          /\ wiz_calls' = Append(wiz_calls, [user_id |-> u, body |-> body,
                                             result |-> IF result = "insert_error"
                                                        THEN "error" ELSE "created"])
          /\ \E k \in 0..Len(tags) :
               /\ result = "tags_error" => k < Len(tags)
               /\ event_tags' = event_tags \cup UpsertedTags(result, n, tags, k)
          /\ channel_msgs' =
               IF result \in {"insert_error", "tags_error", "post_error"} THEN channel_msgs
               ELSE IF pings # <<>> /\ result = "ok"
               THEN Append(posted, [kind |-> "ping", event |-> n, body |-> pings])
               ELSE posted
          /\ events_map' =
               IF result \in {"insert_error", "tags_error", "post_error"} THEN events_map
               ELSE _post_event_embed(Len(posted), n, emb)
          /\ IF result = "ok" THEN WizStep(u, i, "created", "Event created!")
             ELSE WizStep(u, i, "create_failed", "Calendar error")
  /\ UNCHANGED <<_WIZ_STATE, dialogs>>
  /\ UNCHANGED <<flowVars, tagVars, remVars, rsvpVars, catVars, adminVars>>

----------------------------------------------------------------------------
(* cogs/events.py: the /event_create command, which creates the calendar   *)
(* entry from its arguments, without a wizard.                              *)

\* how event_create's try block (lines 174-182) can end: at the calendar
\* insert, at an event_tags upsert, at the post of the embed, or not there
CmdResults == {"ok", "insert_error", "tags_error", "post_error"}

\* the date and start_time arguments, as the fields strptime reads from them
CmdDates ==
  { [y |-> 2026, m |-> 2, d |-> 28, hour |-> 22, minute |-> 30],
    [y |-> 2026, m |-> 2, d |-> 30, hour |-> 22, minute |-> 30] }

\* the tags argument, as tags.split(",")
CmdTags == {<<>>, <<nGames>>, <<nOnline, nBlank, nGames>>}

\* the title argument
CmdTitles == {nNight}

\* the calendar inserts after which no further /event_create is followed
MaxCmdCalls == 1

\* tag_list = [norm_tag(t) for t in tags.split(",") if t.strip()]
TagList(pieces) ==
  LET kept == SelectSeq(pieces, LAMBDA t : StrStrip(t) # <<>>)
  IN [i \in DOMAIN kept |-> StrStrip(kept[i])]

\* post_event_embed, lines 108-111: the row written for message msg_id of
\* event event_id once the message is sent; the statement is in no try
post_event_embed(msg_id, event_id, emb) ==
  {r \in events_map : r.discord_message_id # msg_id}
  \cup {[discord_message_id |-> msg_id, event_id |-> event_id,
          channel_id |-> EVENT_CHANNEL_ID,
          thread_id |-> IF emb = "thread_row" THEN msg_id ELSE 0]}

\* Events.event_create; emb = "norow" is the events_map statement raising
\* after the message was sent
event_create(u, channel_id, chan_ok, title, dt, pieces, result, emb) ==
  /\ result \in CmdResults
  /\ emb \in EmbedResults
  /\ IF ~AllowedSource(channel_id)
     THEN /\ CmdStep(u, 0, "cmd_refused", "Use this in the events or create channel only.",
                     channel_id)
          /\ UNCHANGED <<wiz_calls, event_tags, channel_msgs, events_map>>
     ELSE IF ~chan_ok
     THEN /\ CmdStep(u, 0, "cmd_no_channel",
                     "I can't find the target events channel. Check EVENT_CHANNEL_ID.",
                     channel_id)
          /\ UNCHANGED <<wiz_calls, event_tags, channel_msgs, events_map>>
     ELSE IF ~ValidDateTime(dt.y, dt.m, dt.d, dt.hour, dt.minute)
     THEN /\ CmdStep(u, 0, "cmd_parse_error", "Time parse error", channel_id)
          /\ UNCHANGED <<wiz_calls, event_tags, channel_msgs, events_map>>
     ELSE LET tag_list == TagList(pieces)
              body == [summary |-> title, location |-> <<>>, description |-> <<>>,
                       start |-> dt, end |-> PlusHour(dt)]
              n == Len(wiz_calls) + 1
              posted == Append(channel_msgs, [kind |-> "embed", event |-> n, body |-> body])
              sent == result = "ok"
          IN
          /\ result = "tags_error" => tag_list # <<>>
          /\ wiz_calls' = Append(wiz_calls, [user_id |-> u, body |-> body,
                                             result |-> IF result = "insert_error"
                                                        THEN "error" ELSE "created"])
          /\ \E k \in 0..Len(tag_list) :
               /\ result = "tags_error" => k < Len(tag_list)
               /\ event_tags' = event_tags \cup UpsertedTags(result, n, tag_list, k)
          /\ channel_msgs' = IF sent THEN posted ELSE channel_msgs
          /\ events_map' = IF sent /\ emb # "norow"
                           THEN post_event_embed(Len(posted), n, emb)
                           ELSE events_map
          /\ IF sent /\ emb # "norow"
             THEN CmdStep(u, 0, "cmd_created", "Created", channel_id)
             ELSE CmdStep(u, 0, "cmd_failed", "Calendar error", channel_id)
  /\ UNCHANGED <<_WIZ_STATE, dialogs>>
  /\ UNCHANGED <<flowVars, tagVars, remVars, rsvpVars, catVars, adminVars>>

----------------------------------------------------------------------------
(* cogs/events.py: the RSVP buttons under a posted event.  rsvps has the    *)
(* primary key (event_id, user_id) and is written with INSERT OR REPLACE.   *)

\* the events that carry RSVP buttons and the guild members pressing them
RsvpEvents == {1, 2}
Members == {1, 2}

\* the three buttons of RSVPView
Statuses == {"going", "maybe", "not going"}

NoPress == [event_id |-> 0, user_id |-> 0, status |-> "", answered |-> FALSE]

\* a table keyed by the event alone
UpsertByEvent(rows, row) ==
  {r \in rows : r.event_id # row.event_id} \cup {row}

\* INSERT OR REPLACE INTO rsvps(event_id, user_id, status): the row with the
\* same primary key (event_id, user_id) is replaced
Upsert(rows, row) ==
  {r \in rows : ~(r.event_id = row.event_id /\ r.user_id = row.user_id)} \cup {row}

\* SELECT thread_id FROM events_map WHERE event_id=?, fetchone: the thread of
\* the first row of the event (0 stands for no row or NULL)
ThreadOf(event_id) ==
  LET rows == {r \in events_map : r.event_id = event_id} IN
  IF rows = {} THEN 0
  ELSE (CHOOSE r \in rows :
          \A q \in rows : r.discord_message_id <= q.discord_message_id).thread_id

\* RSVPView._set_status, reached from the going, maybe and notgoing buttons;
\* db_exec is outside the try: when it raises, nothing else of the handler runs
_set_status(event_id, user_id, status, db_ok, add_ok) ==
  /\ IF ~db_ok
     THEN /\ rsvp_last' = [event_id |-> event_id, user_id |-> user_id,
                           status |-> status, answered |-> FALSE]
          /\ UNCHANGED <<rsvps, thread_members, rsvp_chosen>>
     ELSE /\ rsvps' = Upsert(rsvps, [event_id |-> event_id, user_id |-> user_id,
                                     status |-> status])
          /\ thread_members' =
               IF ThreadOf(event_id) # 0 /\ add_ok
               THEN thread_members \cup {<<ThreadOf(event_id), user_id>>}
               ELSE thread_members
          /\ rsvp_last' = [event_id |-> event_id, user_id |-> user_id,
                           status |-> status, answered |-> TRUE]
          /\ rsvp_chosen' = [rsvp_chosen EXCEPT ![<<event_id, user_id>>] = status]
  /\ UNCHANGED <<events_map, catVars, adminVars>>
  /\ UNCHANGED <<flowVars, tagVars, remVars, wizVars>>

----------------------------------------------------------------------------
(* shared.py: get_tags reads the Roles tab through sheet_values and         *)
(* _sheets_get, which tries the read up to `retries` times.                 *)

\* the default of _sheets_get's retries
SheetsRetries == 3

\* the most data rows of the Roles tab
MaxRows == 2

hRoleName    == <<"R", "o", "l", "e", " ", "N", "a", "m", "e">>
hRoleType    == <<" ", "r", "o", "l", "e", " ", "t", "y", "p", "e">>
hDescription == <<"D", "e", "s", "c", "r", "i", "p", "t", "i", "o", "n">>
hName        == <<"N", "a", "m", "e">>
hKind        == <<"K", "i", "n", "d">>
tInterest    == <<"i", "n", "t", "e", "r", "e", "s", "t">>
tInterestPad == <<"i", "n", "t", "e", "r", "e", "s", "t", " ">>
tMode        == <<"m", "o", "d", "e">>
dFun         == <<"f", "u", "n">>

Headers == {<<hRoleName, hRoleType, hDescription>>, <<hRoleType, hRoleName>>,
            <<hName, hKind>>}

RowPool == {<<nGames, tInterest, dFun>>, <<nOnline, tMode>>, <<tInterestPad, nNight>>,
            <<nBlank, tInterest>>, <<nCafe>>}

\* the values the read can return: no rows at all, or a header and data rows
Sheets == {<<>>} \cup {<<h>> \o rows : h \in Headers, rows \in SeqsUpTo(RowPool, MaxRows)}

TagTypes == {tInterest, tMode}

\* the header names list_roles_by_type looks for
kRoleName    == <<"r", "o", "l", "e", " ", "n", "a", "m", "e">>
kRoleType    == <<"r", "o", "l", "e", " ", "t", "y", "p", "e">>
kDescription == <<"d", "e", "s", "c", "r", "i", "p", "t", "i", "o", "n">>

\* list.index(x): the first position of x (from 1), 0 when absent
IndexOf(lst, x) ==
  IF \E i \in DOMAIN lst : lst[i] = x
  THEN CHOOSE i \in DOMAIN lst : lst[i] = x /\ \A j \in DOMAIN lst : lst[j] = x => i <= j
  ELSE 0

\* the for loop of list_roles_by_type over vals[1:], from row k on
RECURSIVE RolesFrom(_, _, _, _, _, _, _)
RolesFrom(vals, allowed, i_role, i_type, i_desc, k, out) ==
  IF k > Len(vals) THEN out
  ELSE LET r == vals[k]
           big == IF i_role > i_type THEN i_role ELSE i_type
       IN IF Len(r) < big
          THEN RolesFrom(vals, allowed, i_role, i_type, i_desc, k + 1, out)
          ELSE LET t == StrStrip(r[i_type])
                   name == StrStrip(r[i_role])
                   desc == IF i_desc # 0 /\ i_desc <= Len(r) THEN StrStrip(r[i_desc])
                           ELSE <<>>
               IN IF allowed # {} /\ t \notin allowed
                  THEN RolesFrom(vals, allowed, i_role, i_type, i_desc, k + 1, out)
                  ELSE IF name = <<>>
                  THEN RolesFrom(vals, allowed, i_role, i_type, i_desc, k + 1, out)
                  ELSE RolesFrom(vals, allowed, i_role, i_type, i_desc, k + 1,
                                 Put(out, t, Append(Get(out, t, <<>>),
                                                    [name |-> name, desc |-> desc])))

\* list_roles_by_type(allowed) on the values read: {role_type: [(name, desc)]};
\* the columns default to the first and the second
list_roles_by_type(vals, allowed) ==
  IF vals = <<>> THEN EmptyDict
  ELSE LET hdr == [i \in DOMAIN vals[1] |-> StrLower(StrStrip(vals[1][i]))]
           at_role == IndexOf(hdr, kRoleName)
           at_type == IndexOf(hdr, kRoleType)
           i_role == IF at_role = 0 THEN 1 ELSE at_role
           i_type == IF at_type = 0 THEN 2 ELSE at_type
           i_desc == IndexOf(hdr, kDescription)
       IN RolesFrom(vals, allowed, i_role, i_type, i_desc, 2, EmptyDict)

\* get_tags(tag_type) once sheet_values has returned vals or raised: there is
\* no try in get_tags, list_roles_by_type or sheet_values
get_tags_value(vals, tag_type, read_ok) ==
  IF read_ok
  THEN [raised |-> FALSE, value |-> Get(list_roles_by_type(vals, {tag_type}), tag_type, <<>>)]
  ELSE [raised |-> TRUE, value |-> <<>>]

NotRead == [raised |-> FALSE, value |-> <<"-">>]

\* a caller awaits get_tags(tag_type): _sheets_get starts with attempt 1
get_tags(tag_type) ==
  /\ g_state = "idle"
  /\ g_state' = "reading"
  /\ g_type' = tag_type
  /\ g_attempt' = 1
  /\ UNCHANGED <<sheet, g_failed, g_result>>
  /\ UNCHANGED <<flowVars, tagVars, remVars, wizVars, dbVars, adminVars>>

\* one pass of _sheets_get's for loop: the read returns, or raises and is
\* tried again after a sleep, or raises on the last attempt and is re-raised
_sheets_get(read_ok) ==
  /\ g_state = "reading"
  /\ IF read_ok
     THEN /\ g_state' = "done"
          /\ g_result' = get_tags_value(sheet, g_type, TRUE)
          /\ UNCHANGED <<g_attempt, g_failed>>
     ELSE IF g_attempt = SheetsRetries
     THEN /\ g_state' = "done"
          /\ g_result' = get_tags_value(sheet, g_type, FALSE)
          /\ g_failed' = g_failed + 1
          /\ UNCHANGED g_attempt
     ELSE /\ g_attempt' = g_attempt + 1
          /\ g_failed' = g_failed + 1
          /\ UNCHANGED <<g_state, g_result>>
  /\ UNCHANGED <<sheet, g_type>>
  /\ UNCHANGED <<flowVars, tagVars, remVars, wizVars, dbVars, adminVars>>

----------------------------------------------------------------------------
(* cogs/roles_sync.py: /roles sync creates the roles the sheet names and,   *)
(* with prune_missing, deletes the unnamed roles that nobody holds.  Every  *)
(* create_role and delete is an await, so member changes made by others     *)
(* fall between them.                                                       *)

MaxSyncs     == 2
MaxRoleEdits == 2

nEveryone == <<"@", "e", "v", "e", "r", "y", "o", "n", "e">>
nBotRole  == <<"B", "o", "t">>

\* the members roles are given to and taken from
RoleMembers == {1}

Role(id, name, is_default, managed, members) ==
  [id |-> id, name |-> name, is_default |-> is_default, managed |-> managed,
   members |-> members]

\* the guilds the command is used in: the default role, and some of an unheld
\* role the sheet may name, an unheld one it does not, a held one and the
\* bot's managed role
RolePool ==
  {Role(2, nGames, FALSE, FALSE, {}), Role(3, nBooks, FALSE, FALSE, {}),
   Role(4, nCafe, FALSE, FALSE, RoleMembers), Role(5, nBotRole, FALSE, TRUE, {})}

Guilds == {{Role(1, nEveryone, TRUE, FALSE, RoleMembers)} \cup S : S \in SUBSET RolePool}

\* the lists list_interest_roles returns
SheetLists == {<<>>, <<nGames, nBlank>>, <<nNight, nOnline, nGames>>}

\* sheet_set = {n for n in (s.strip() for s in sheet_names) if n}
SheetSet(names) == {StrStrip(names[i]) : i \in DOMAIN names} \ {<<>>}

\* list(guild.roles), as the ids in the order of the list
RECURSIVE RoleIds(_)
RoleIds(roles) ==
  IF roles = {} THEN <<>>
  ELSE LET r == CHOOSE x \in roles : \A y \in roles : x.id <= y.id
       IN <<r.id>> \o RoleIds(roles \ {r})

\* discord.utils.get(guild.roles, name=name)
HasRole(name) == \E r \in guild_roles : r.name = name

\* a prune that does not look at the members
PrunableUnheldOrNot(r, keep) ==
  /\ ~(r.is_default \/ r.managed)
  /\ r.name \notin keep

\* lines 41-44: the role is deleted
Prunable(r, keep) ==
  /\ ~(r.is_default \/ r.managed)
  /\ r.name \notin keep /\ Cardinality(r.members) = 0

RsIdle ==
  [pc |-> "idle", run |-> 0, prune_missing |-> FALSE, sheet_set |-> {}, todo |-> {},
   snapshot |-> <<>>, created |-> {}, pruned |-> {}, msg |-> "", next_id |-> 6]

\* the command raised: nothing more of it runs
RsRaised == [rs EXCEPT !.pc = "idle", !.msg = "error"]

\* RolesSync.sync up to the read of the sheet
sync(perm, prune_missing, read_ok) ==
  /\ rs.pc = "idle"
  /\ rs.run < MaxSyncs
  /\ rs' = IF ~perm
           THEN [rs EXCEPT !.run = @ + 1, !.msg = "Need Manage Roles permission."]
           ELSE IF ~read_ok
           THEN [rs EXCEPT !.run = @ + 1, !.msg = "error"]
           ELSE [rs EXCEPT !.pc = "create", !.run = @ + 1, !.msg = "",
                           !.prune_missing = prune_missing,
                           !.sheet_set = SheetSet(sheet_names),
                           !.todo = SheetSet(sheet_names),
                           !.created = {}, !.pruned = {}]
  /\ UNCHANGED <<guild_roles, sheet_names, rs_done, role_edits, memVars>>
  /\ UNCHANGED <<flowVars, tagVars, remVars, wizVars, dbVars, catVars>>

\* one pass of "for name in sheet_set" (lines 33-36)
CreateLoop(name, ok) ==
  /\ rs.pc = "create"
  /\ name \in rs.todo
  /\ IF HasRole(name)
     THEN /\ rs' = [rs EXCEPT !.todo = @ \ {name}]
          /\ UNCHANGED guild_roles
     ELSE IF ok
     THEN /\ guild_roles' = guild_roles \cup {Role(rs.next_id, name, FALSE, FALSE, {})}
          /\ rs' = [rs EXCEPT !.todo = @ \ {name}, !.created = @ \cup {name},
                              !.next_id = @ + 1]
     ELSE /\ rs' = RsRaised
          /\ UNCHANGED guild_roles
  /\ UNCHANGED <<sheet_names, rs_done, role_edits, memVars>>
  /\ UNCHANGED <<flowVars, tagVars, remVars, wizVars, dbVars, catVars>>

\* lines 38-41: after the loop, the roles to look at are listed
AfterCreate ==
  /\ rs.pc = "create"
  /\ rs.todo = {}
  /\ rs' = IF rs.prune_missing
           THEN [rs EXCEPT !.pc = "prune", !.snapshot = RoleIds(guild_roles)]
           ELSE [rs EXCEPT !.pc = "reply"]
  /\ UNCHANGED <<guild_roles, sheet_names, rs_done, role_edits, memVars>>
  /\ UNCHANGED <<flowVars, tagVars, remVars, wizVars, dbVars, catVars>>

\* one pass of "for r in list(guild.roles)" (lines 41-46)
PruneLoop(ok) ==
  /\ rs.pc = "prune"
  /\ rs.snapshot # <<>>
  /\ LET r == CHOOSE x \in guild_roles : x.id = Head(rs.snapshot) IN
     IF ~Prunable(r, rs.sheet_set)
     THEN /\ rs' = [rs EXCEPT !.snapshot = Tail(@)]
          /\ UNCHANGED guild_roles
     ELSE IF ok
     THEN /\ guild_roles' = guild_roles \ {r}
          /\ rs' = [rs EXCEPT !.snapshot = Tail(@), !.pruned = @ \cup {r.name}]
     ELSE /\ rs' = RsRaised
          /\ UNCHANGED guild_roles
  /\ UNCHANGED <<sheet_names, rs_done, role_edits, memVars>>
  /\ UNCHANGED <<flowVars, tagVars, remVars, wizVars, dbVars, catVars>>

\* lines 48-53: the summary message
SyncReply ==
  /\ \/ rs.pc = "reply"
     \/ rs.pc = "prune" /\ rs.snapshot = <<>>
  /\ rs' = [rs EXCEPT !.pc = "idle", !.msg = "Created | Pruned | Total sheet roles"]
  /\ rs_done' = rs_done + 1
  /\ UNCHANGED <<guild_roles, sheet_names, role_edits, memVars>>
  /\ UNCHANGED <<flowVars, tagVars, remVars, wizVars, dbVars, catVars>>

\* somebody gives a role to a member or takes it away
EditRoleMembers(id, m) ==
  /\ role_edits < MaxRoleEdits
  /\ role_edits' = role_edits + 1
  /\ \E r \in guild_roles :
       /\ r.id = id
       /\ ~r.is_default
       /\ guild_roles' = (guild_roles \ {r}) \cup
            {[r EXCEPT !.members = IF m \in @ THEN @ \ {m} ELSE @ \cup {m}]}
  /\ UNCHANGED <<sheet_names, rs, rs_done, memVars>>
  /\ UNCHANGED <<flowVars, tagVars, remVars, wizVars, dbVars, catVars>>

RolesInit(guilds, lists) ==
  /\ guild_roles \in guilds
  /\ sheet_names \in lists
  /\ rs = RsIdle
  /\ rs_done = 0
  /\ role_edits = 0

----------------------------------------------------------------------------
(* cogs/sync_members.py: /sync_members writes the guild's members into the  *)
(* members tab.  After the members are fetched the command runs without an  *)
(* await up to its reply, so one run is one step.                           *)

MaxMemberSyncs == 3

\* the members there are: m.id, m.name, m.discriminator, m.display_name
MemberPool ==
  {[id |-> 101, name |-> "ann", discriminator |-> "0", display_name |-> "Ann"],
   [id |-> 102, name |-> "bob", discriminator |-> "0", display_name |-> "Bob"]}

\* the header row of the members tab
MemberHeader == <<"User Name", "First Name", "First Seen", "Last Seen", "Active", "Left At">>

\* idx = {name: i for i, name in enumerate(header)}, counted from 1
Idx(name) == CHOOSE i \in DOMAIN MemberHeader : MemberHeader[i] = name

\* datetime.now(UTC).isoformat() at the n-th run
Iso(n) == "t" \o ToString(n)

\* str(m.id)
Uid(m) == ToString(m.id)

\* f"{m.name}#{m.discriminator}"
Username(m) == m.name \o "#" \o m.discriminator

\* row = [row_data.get(col, "") for col in header]
NewRow(m, t) ==
  [i \in DOMAIN MemberHeader |->
     CASE MemberHeader[i] = "User Name"  -> Username(m)
       [] MemberHeader[i] = "First Name" -> m.display_name
       [] MemberHeader[i] = "First Seen" -> t
       [] MemberHeader[i] = "Last Seen"  -> t
       [] MemberHeader[i] = "Active"     -> "YES"
       [] OTHER                          -> ""]

\* a row somebody typed into the tab with the member's id as its name
TypedRow(m) ==
  [i \in DOMAIN MemberHeader |->
     CASE MemberHeader[i] = "User Name" -> Uid(m)
       [] MemberHeader[i] = "Active"    -> "YES"
       [] OTHER                         -> ""]

\* the tabs the command starts from
MemberTabs == {<<>>} \cup {<<TypedRow(m)>> : m \in MemberPool}

\* lines 41-47: existing[user] = (row_num, row) for the rows with a User Name,
\* a later row replacing an earlier one of the same name; as name -> position
Existing(rows) ==
  LET named == {k \in DOMAIN rows : Len(rows[k]) > Idx("User Name") - 1
                                    /\ rows[k][Idx("User Name")] # ""}
  IN [u \in {rows[k][Idx("User Name")] : k \in named} |->
        CHOOSE k \in named : /\ rows[k][Idx("User Name")] = u
                             /\ \A j \in named : rows[j][Idx("User Name")] = u => j <= k]

\* the members in the order fetch_members yields them
RECURSIVE InIdOrder(_)
InIdOrder(ms) ==
  IF ms = {} THEN <<>>
  ELSE LET m == CHOOSE x \in ms : \A y \in ms : x.id <= y.id
       IN <<m>> \o InIdOrder(ms \ {m})

NoRun == [members |-> {}, appended |-> 0, updated |-> 0]

\* SyncMembers.sync_members
sync_members ==
  /\ sm_now < MaxMemberSyncs
  /\ LET t == Iso(sm_now + 1)
         members == InIdOrder(guild_members)
         current_ids == {Uid(m) : m \in guild_members}
         existing == Existing(ws_rows)
         \* lines 77-81 and 88-94: the rows rewritten in place
         Updated(k) ==
           LET row == ws_rows[k]
               u == row[Idx("User Name")]
           IN IF u \in current_ids
              THEN [row EXCEPT ![Idx("Last Seen")] = t, ![Idx("Active")] = "YES"]
              ELSE [row EXCEPT ![Idx("Active")] = "NO",
                               ![Idx("Left At")] = IF @ = "" THEN t ELSE @]
         updates == {existing[u] : u \in DOMAIN existing}
         fresh == SelectSeq(members, LAMBDA m : Uid(m) \notin DOMAIN existing)
         appends == [i \in DOMAIN fresh |-> NewRow(fresh[i], t)]
     IN /\ ws_rows' = [k \in DOMAIN ws_rows |->
                         IF k \in updates THEN Updated(k) ELSE ws_rows[k]] \o appends
        /\ sm_last' = [members |-> guild_members, appended |-> Len(appends),
                       updated |-> Cardinality(updates)]
  /\ sm_now' = sm_now + 1
  /\ UNCHANGED <<guild_members, roleVars>>
  /\ UNCHANGED <<flowVars, tagVars, remVars, wizVars, dbVars, catVars>>

\* a member joins or leaves the guild
MemberChange(m) ==
  /\ guild_members' = IF m \in guild_members THEN guild_members \ {m}
                      ELSE guild_members \cup {m}
  /\ UNCHANGED <<ws_rows, sm_now, sm_last, roleVars>>
  /\ UNCHANGED <<flowVars, tagVars, remVars, wizVars, dbVars, catVars>>

MembersInit(guilds, tabs) ==
  /\ guild_members \in guilds
  /\ ws_rows \in tabs
  /\ sm_now = 0
  /\ sm_last = NoRun

\* the two admin commands, not in use
AdminInit ==
  /\ RolesInit({{Role(1, nEveryone, TRUE, FALSE, RoleMembers)}}, {<<>>})
  /\ MembersInit({{}}, {<<>>})

----------------------------------------------------------------------------
(* Specifications *)

FlowInit(catalogs) ==
  /\ pc = "form"
  /\ outcome = ""
  /\ start_full = NoValue
  /\ end_full = NoValue
  /\ available_tags \in catalogs
  /\ options = <<>>
  /\ selected = <<>>
  /\ view = "none"
  /\ cur = NoValue
  /\ attempts = <<>>
  /\ calendar = <<>>
  /\ calendar_links = <<>>
  /\ followups = <<>>
  /\ threads = <<>>
  /\ summary = NoSummary
  /\ in_flight = {}
  /\ channel = "unset"
  /\ start_dt_in = NoValue
  /\ end_dt_in = NoValue

TagsInit(channels, requests) ==
  /\ t_channel \in channels
  /\ t_names \in requests
  /\ t_result = NotRun

RemInit(tables) ==
  /\ now = 0
  /\ loop_state = "sleeping"
  /\ items = <<>>
  /\ idx = 1
  /\ table_exists \in tables
  /\ reminder_log = {}
  /\ alerts = <<>>
  /\ last_fetch = "none"
  /\ lookup = NoLookup
  /\ failures = {}

DbInit(maps) ==
  /\ events_map \in maps
  /\ rsvps = {}
  /\ thread_members = {}
  /\ rsvp_last = NoPress
  /\ rsvp_chosen = [k \in RsvpEvents \X Members |-> ""]

CatInit(sheets) ==
  /\ sheet \in sheets
  /\ g_state = "idle"
  /\ g_type = <<>>
  /\ g_attempt = 0
  /\ g_failed = 0
  /\ g_result = NotRead

WizInit ==
  /\ _WIZ_STATE = EmptyDict
  /\ dialogs = <<>>
  /\ wiz_calls = <<>>
  /\ event_tags = {}
  /\ channel_msgs = <<>>
  /\ wiz_last = NoStep
  /\ wiz_steps = 0

\* the event flow of one DynamicEventModal
Init ==
  FlowInit(Catalogs) /\ TagsInit({<<>>}, {<<>>}) /\ RemInit({TRUE}) /\ WizInit /\ DbInit({{}})
  /\ CatInit({<<>>}) /\ AdminInit

Next ==
  \/ Submit
  \/ Select
  \/ Confirm
  \/ Cancel
  \/ Timeout
  \/ \E t \in Catalogs : EditTags(t)
  \/ AfterWait
  \/ InsertCall
  \/ \E r \in InsertResults : InsertDay(r)
  \/ ResolveTags
  \/ \E ok \in BOOLEAN : PostThread(ok)

Spec == Init /\ [][Next]_vars

\* the tag resolver on every tag list and request within the bounds
InitTags ==
  /\ FlowInit({<<>>})
  /\ TagsInit({c \in DistinctSeqs(TagPool, 0, MaxCat) :
                 \A i, j \in DOMAIN c : i # j => c[i].id # c[j].id},
              SeqsUpTo(NamePool, MaxReq))
  /\ RemInit({TRUE})
  /\ WizInit
  /\ DbInit({{}})
  /\ CatInit({<<>>}) /\ AdminInit

NextTags == Resolve

SpecTags == InitTags /\ [][NextTags]_vars

\* the reminder loop
InitRem ==
  FlowInit({<<>>}) /\ TagsInit({<<>>}, {<<>>}) /\ RemInit(BOOLEAN) /\ WizInit /\ DbInit({{}})
  /\ CatInit({<<>>}) /\ AdminInit

NextRem ==
  \/ \E ok \in BOOLEAN : TickStart(ok)
  \/ \E th, ch, df, sd, wr \in BOOLEAN : ProcessItem(th, ch, df, sd, wr)
  \/ TickEnd

SpecRem == InitRem /\ [][NextRem]_vars

\* the event wizard, used by two operators
InitWiz ==
  FlowInit({<<>>}) /\ TagsInit({<<>>}, {<<>>}) /\ RemInit({TRUE}) /\ WizInit /\ DbInit({{}})
  /\ CatInit({<<>>}) /\ AdminInit

NextWiz ==
  \/ \E u \in Operators, c \in {EVENT_CHANNEL_ID, OtherChannel} : event_wizard(u, c)
  \/ \E i \in 1..MaxDialogs, v \in ModeValues : ModeSelect(i, v)
  \/ \E i \in 1..MaxDialogs, v \in TagValues : TagMultiSelect(i, v)
  \/ \E i \in 1..MaxDialogs : details(i)
  \/ \E i \in 1..MaxDialogs, inp \in DetailsInputs : DetailsSubmit(i, inp)
  \/ \E i \in 1..MaxDialogs : next(i)
  \/ \E i \in 1..MaxDialogs : back(i)
  \/ \E i \in 1..MaxDialogs, y \in YearValues : YearSelect(i, y)
  \/ \E i \in 1..MaxDialogs, m \in MonthValues : MonthSelect(i, m)
  \/ \E i \in 1..MaxDialogs, d \in DayValues : DaySelect(i, d)
  \/ \E i \in 1..MaxDialogs, h \in HourValues : HourSelect(i, h)
  \/ \E i \in 1..MaxDialogs, mi \in MinuteValues : MinuteSelect(i, mi)
  \/ \E i \in 1..MaxDialogs, ok \in BOOLEAN, r \in CreateResults, emb \in EmbedResults :
       create(i, ok, r, emb)
  \/ \E i \in 1..MaxDialogs : ViewTimeout(i)

SpecWiz == InitWiz /\ [][NextWiz]_vars

\* the years YearSelect offers while now advances through them
DayYears == NowDate.y..(NowDate.y + 3)

\* one operator on page 2 of the wizard, picking years and months
InitDays ==
  FlowInit({<<>>}) /\ TagsInit({<<>>}, {<<>>}) /\ RemInit({TRUE}) /\ WizInit /\ DbInit({{}})
  /\ CatInit({<<>>}) /\ AdminInit

NextDays ==
  \/ \E u \in CmdOperators : event_wizard(u, EVENT_CHANNEL_ID)
  \/ \E i \in 1..MaxDialogs : next(i)
  \/ \E i \in 1..MaxDialogs : back(i)
  \/ \E i \in 1..MaxDialogs, y \in DayYears : YearSelect(i, y)
  \/ \E i \in 1..MaxDialogs, m \in 1..12 : MonthSelect(i, m)

SpecDays == InitDays /\ [][NextDays]_vars

\* the two commands that create events: /event_create, and /event_wizard
\* with the one dialog it opens
InitCmd ==
  FlowInit({<<>>}) /\ TagsInit({<<>>}, {<<>>}) /\ RemInit({TRUE}) /\ WizInit /\ DbInit({{}})
  /\ CatInit({<<>>}) /\ AdminInit

NextCmd ==
  \/ /\ Len(wiz_calls) < MaxCmdCalls
     /\ \E u \in CmdOperators, c \in Channels, ok \in BOOLEAN, title \in CmdTitles,
           dt \in CmdDates, pieces \in CmdTags, r \in CmdResults, emb \in EmbedResults :
          \* an input that is not read is drawn once
          /\ r # "ok" => emb = "norow"
          /\ ~ok => dt.d = 28 /\ pieces = <<>> /\ r = "ok"
          /\ dt.d # 28 => pieces = <<>> /\ r = "ok"
          /\ event_create(u, c, ok, title, dt, pieces, r, emb)
  \/ \E u \in CmdOperators, c \in Channels :
       \* once the dialog is open the command is followed from elsewhere only
       /\ dialogs # <<>> => c = OtherChannel
       /\ event_wizard(u, c)
  \/ \E v \in TagValues : TagMultiSelect(1, v)
  \/ details(1)
  \/ \E inp \in DetailsInputs : DetailsSubmit(1, inp)
  \/ next(1)
  \/ \E ok \in BOOLEAN, r \in CreateResults, emb \in EmbedResults :
       /\ r \in {"insert_error", "tags_error", "post_error"} => emb = "norow"
       /\ ~ok => r = "ok" /\ emb = "norow"
       /\ create(1, ok, r, emb)

SpecCmd == InitCmd /\ [][NextCmd]_vars

\* /roles sync used up to MaxSyncs times while roles change hands
InitRoles ==
  FlowInit({<<>>}) /\ TagsInit({<<>>}, {<<>>}) /\ RemInit({TRUE}) /\ WizInit /\ DbInit({{}})
  /\ CatInit({<<>>}) /\ RolesInit(Guilds, SheetLists) /\ MembersInit({{}}, {<<>>})

NextRoles ==
  \/ \E perm \in BOOLEAN, prune_missing \in BOOLEAN, read_ok \in BOOLEAN :
       sync(perm, prune_missing, read_ok)
  \/ \E name \in rs.todo, ok \in BOOLEAN : CreateLoop(name, ok)
  \/ AfterCreate
  \/ \E ok \in BOOLEAN : PruneLoop(ok)
  \/ SyncReply
  \/ \E r \in guild_roles, m \in RoleMembers : EditRoleMembers(r.id, m)

SpecRoles == InitRoles /\ [][NextRoles]_vars

\* /sync_members used up to MaxMemberSyncs times while members come and go
InitMembers ==
  FlowInit({<<>>}) /\ TagsInit({<<>>}, {<<>>}) /\ RemInit({TRUE}) /\ WizInit /\ DbInit({{}})
  /\ CatInit({<<>>}) /\ RolesInit({{Role(1, nEveryone, TRUE, FALSE, RoleMembers)}}, {<<>>})
  /\ MembersInit(SUBSET MemberPool, MemberTabs)

NextMembers ==
  \/ sync_members
  \/ \E m \in MemberPool : MemberChange(m)

SpecMembers == InitMembers /\ [][NextMembers]_vars

\* the reminder task next to the operators' flows on the bot's one event
\* loop: every handler runs from one await to the next, and the steps of the
\* task and of the flows interleave in any order
MaxConcTicks == 1
MaxConcWiz == 3

ConcTexts == {t \in Texts : t.mm = 2 /\ t.dd = 28 /\ t.hh = 12}

InitConc ==
  FlowInit({<<tagGames>>}) /\ TagsInit({<<>>}, {<<>>}) /\ RemInit({TRUE}) /\ WizInit
  /\ DbInit({{}})
  /\ CatInit({<<>>}) /\ AdminInit

NextConc ==
  \/ \E s \in ConcTexts, e \in ConcTexts, c \in {"cached", "not_forum"} : on_submit(s, e, c)
  \/ Select
  \/ Confirm
  \/ Cancel
  \/ Timeout
  \/ AfterWait
  \/ wiz_steps < MaxConcWiz /\ \E u \in CmdOperators : event_wizard(u, EVENT_CHANNEL_ID)
  \/ wiz_steps < MaxConcWiz /\ \E i \in 1..MaxDialogs : details(i)
  \/ wiz_steps < MaxConcWiz /\ \E i \in 1..MaxDialogs, inp \in DetailsInputs : DetailsSubmit(i, inp)
  \/ now < MaxConcTicks /\ \E ok \in BOOLEAN : TickStart(ok)
  \/ \E th, ch, df, sd, wr \in BOOLEAN : ProcessItem(th, ch, df, sd, wr)
  \/ TickEnd

SpecConc == InitConc /\ [][NextConc]_vars

\* the RSVP buttons of two events pressed by two members; event 1 was
\* posted with a thread, event 2 has no events_map row
InitRsvp ==
  FlowInit({<<>>}) /\ TagsInit({<<>>}, {<<>>}) /\ RemInit({TRUE}) /\ WizInit
  /\ DbInit({{[discord_message_id |-> 1, event_id |-> 1,
               channel_id |-> EVENT_CHANNEL_ID, thread_id |-> 1]}})
  /\ CatInit({<<>>}) /\ AdminInit

NextRsvp ==
  \E e \in RsvpEvents, u \in Members, st \in Statuses, db_ok, add_ok \in BOOLEAN :
    _set_status(e, u, st, db_ok, add_ok)

SpecRsvp == InitRsvp /\ [][NextRsvp]_vars

\* get_tags over every Roles tab within the bounds
InitCat ==
  FlowInit({<<>>}) /\ TagsInit({<<>>}, {<<>>}) /\ RemInit({TRUE}) /\ WizInit /\ DbInit({{}})
  /\ CatInit(Sheets) /\ AdminInit

NextCat ==
  \/ \E t \in TagTypes : get_tags(t)
  \/ \E ok \in BOOLEAN : _sheets_get(ok)

SpecCat == InitCat /\ [][NextCat]_vars

----------------------------------------------------------------------------
(* Notions the properties are stated in, defined apart from the model's    *)
(* own helpers.                                                            *)

CumDays == <<0, 31, 59, 90, 120, 151, 181, 212, 243, 273, 304, 334>>

\* the day number of a date (days since 0001-01-01, plus one)
DayNum(x) ==
  365 * (x.y - 1) + ((x.y - 1) \div 4) - ((x.y - 1) \div 100) + ((x.y - 1) \div 400)
  + CumDays[x.m] + (IF x.m > 2 /\ IsLeap(x.y) THEN 1 ELSE 0) + x.d

\* minutes of the time of day
TimeOfDay(dt) == 60 * dt.hour + dt.minute

\* the instant of a datetime, in minutes
Instant(dt) == 1440 * DayNum(dt) + TimeOfDay(dt)

\* the number of calendar days from the start date to the end date, inclusive
SpanDays == DayNum(end_full) - DayNum(start_full) + 1

\* the flow has parsed its input
Parsed == start_full # NoValue /\ end_full # NoValue

\* the input is valid: both texts parse and the start date is not after the end date
ValidInput == Parsed /\ DayNum(start_full) <= DayNum(end_full)

\* the insert loop has run to its end
Materialized == pc \in {"resolve", "posting"} \/ outcome \in {"NoValidTags", "Done", "Raised"}

\* a name without its leading and trailing blanks, in lower case
Canon(n) ==
  LET keep == {i \in DOMAIN n : n[i] # " "} IN
  IF keep = {} THEN <<>>
  ELSE LET lo == CHOOSE i \in keep : \A j \in keep : i <= j
           hi == CHOOSE i \in keep : \A j \in keep : j <= i
       IN [k \in 1..(hi - lo + 1) |->
             LET c == n[lo + k - 1] IN
             IF \E u \in DOMAIN Upper : Upper[u] = c
             THEN Lower[CHOOSE u \in DOMAIN Upper : Upper[u] = c]
             ELSE c]

\* name a and name b are the same but for case and surrounding blanks
SameName(a, b) == Canon(a) = Canon(b)

\* some chosen name is the name of a tag of the destination
SomeChosenMatches ==
  \E i \in DOMAIN selected, j \in DOMAIN available_tags :
    SameName(selected[i], available_tags[j].name)

\* the entries the inserts of this flow created
Created == {i \in DOMAIN attempts : attempts[i].result # "error"}

----------------------------------------------------------------------------
(* C1.  The reminder loop never sends two alerts for the same (calendar     *)
(* entry id, lead-time tag) pair, whatever fetches, sends and marker        *)
(* writes fail.  The code sends first and writes the marker afterwards in   *)
(* the same try block: when the write fails the next tick sends again.      *)
C1_AtMostOneAlertPerPair ==
  \A i, j \in DOMAIN alerts :
    i # j => <<alerts[i].event_id, alerts[i].tag>> # <<alerts[j].event_id, alerts[j].tag>>

(* C2.  Expiry of the tag picker is treated like Cancel in every state of   *)
(* the dialog: after a timeout no calendar entry is created and nothing is  *)
(* posted.  The code reads tag_view.selected after wait() and goes on when  *)
(* a selection was made before the timeout.                                 *)
C2_TimeoutIsCancel ==
  view = "timeout" => attempts = <<>> /\ calendar = <<>> /\ threads = <<>>

(* C3.  A flow over N calendar days (both ends included) that reaches       *)
(* materialization makes exactly N insert attempts, one per day in          *)
(* ascending date order, whatever the inserts return, and the summary's     *)
(* "When" field has N lines in ascending date order.                        *)
C3_OneAttemptPerDay ==
  ValidInput =>
    /\ Len(attempts) <= SpanDays
    /\ \A i \in DOMAIN attempts : DayNum(attempts[i].day) = DayNum(start_full) + i - 1
    /\ Materialized => Len(attempts) = SpanDays
    /\ summary # NoSummary =>
         /\ Len(summary.when_lines) = SpanDays
         /\ \A i \in DOMAIN summary.when_lines :
              DayNum(summary.when_lines[i].day) = DayNum(start_full) + i - 1

C3_Witness ==
  /\ outcome = "Done"
  /\ SpanDays = 3
  /\ \E i \in DOMAIN attempts : attempts[i].result = "error"
  /\ Len(threads) = 1
  /\ Len(threads[1].when_lines) = 3

(* C4 as claimed.  For every valid same-day input exactly one calendar      *)
(* entry is created and the "When" summary has one line.                    *)
C4_ExactlyOneEntry ==
  (Parsed /\ Materialized /\ DateOf(start_full) = DateOf(end_full)) =>
    /\ Len(calendar) = 1
    /\ summary # NoSummary => Len(summary.when_lines) = 1

(* C4 as amended.  A same-day input that reaches materialization makes      *)
(* exactly one insert attempt; one entry is created when that insert        *)
(* succeeds and none when it fails; the "When" summary has one line.        *)
C4_OneAttemptSameDay ==
  (Parsed /\ DateOf(start_full) = DateOf(end_full)) =>
    /\ Len(attempts) <= 1
    /\ Materialized =>
         /\ Len(attempts) = 1
         /\ Len(calendar) = (IF attempts[1].result = "error" THEN 0 ELSE 1)
    /\ summary # NoSummary => Len(summary.when_lines) = 1

C4_Witness ==
  /\ outcome = "Done"
  /\ DateOf(start_full) = DateOf(end_full)
  /\ Len(calendar) = 1
  /\ Len(threads) = 1
  /\ Len(threads[1].when_lines) = 1

(* C5.  When the start date is later than the end date the flow ends with   *)
(* an InvalidInput rejection told to the operator, before any external      *)
(* write: no tag picker, no calendar insert, no post.                       *)
C5_EndBeforeStartRejected ==
  (Parsed /\ DayNum(start_full) > DayNum(end_full)) =>
    /\ pc = "done"
    /\ outcome = "InvalidInput"
    /\ Said("End date is before start date.")
    /\ view = "none"
    /\ options = <<>>
    /\ attempts = <<>>
    /\ calendar = <<>>
    /\ threads = <<>>

C5_Witness ==
  /\ Parsed
  /\ DayNum(start_full) > DayNum(end_full)
  /\ outcome = "InvalidInput"
  /\ followups = <<Msg("End date is before start date.", <<>>)>>

(* C6.  Every interval passed to the calendar writer ends strictly after    *)
(* it starts: when the end time of day is not after the start time of day   *)
(* the end is on the next day, otherwise both are on the day itself.        *)
C6_IntervalEndsAfterStart ==
  \A i \in DOMAIN attempts :
    LET a == attempts[i] IN
    /\ Instant(a.start) < Instant(a.end)
    /\ DayNum(a.start) = DayNum(a.day)
    /\ DayNum(a.end) = DayNum(a.day) + (IF TimeOfDay(a.end) <= TimeOfDay(a.start) THEN 1 ELSE 0)

C6_Witness ==
  \E i \in DOMAIN attempts :
    /\ TimeOfDay(attempts[i].end) = TimeOfDay(attempts[i].start)
    /\ attempts[i].day = [y |-> 2024, m |-> 2, d |-> 29]
    /\ DateOf(attempts[i].end) = [y |-> 2024, m |-> 3, d |-> 1]

(* C7.  _resolve_forum_tags matches the requested names against the tag    *)
(* list without regard to case and surrounding blanks, returns the matched  *)
(* tags in first-seen order of the requested names with duplicates          *)
(* collapsed, and changes neither the tag list nor the requested names.     *)
FirstRequest(t) ==
  CHOOSE k \in DOMAIN t_names :
    /\ SameName(t_names[k], t.name)
    /\ \A j \in DOMAIN t_names : SameName(t_names[j], t.name) => k <= j

ResolvedRight ==
  t_result.run =>
    LET found == t_result.found IN
    /\ \A i \in DOMAIN found :
         /\ \E j \in DOMAIN t_channel : t_channel[j] = found[i]
         /\ \E k \in DOMAIN t_names : SameName(t_names[k], found[i].name)
    /\ \A i, j \in DOMAIN found :
         i # j => found[i].id # found[j].id /\ ~SameName(found[i].name, found[j].name)
    /\ \A k \in DOMAIN t_names :
         (\E j \in DOMAIN t_channel : SameName(t_names[k], t_channel[j].name))
           => \E i \in DOMAIN found : SameName(t_names[k], found[i].name)
    /\ \A i, j \in DOMAIN found : i < j => FirstRequest(found[i]) < FirstRequest(found[j])
    /\ (t_channel = <<tagGames, tagYardSale>> /\ t_names = <<nYardSaleTyped, nGames, nGamesLower>>)
         => found = <<tagYardSale, tagGames>>

C7_ResolveInRequestOrder ==
  [][t_channel' = t_channel /\ t_names' = t_names /\ ResolvedRight']_vars

C7_Witness ==
  /\ t_channel = <<tagGames, tagYardSale>>
  /\ t_names = <<nYardSaleTyped, nGames, nGamesLower>>
  /\ t_result.run
  /\ t_result.found = <<tagYardSale, tagGames>>

(* C8.  When none of the chosen names matches a tag of the destination the  *)
(* flow ends in NoValidTags: no thread is posted, the operator is told, and *)
(* the calendar entries the flow created stay in the calendar.              *)
C8_NoValidTagsNoPost ==
  /\ (pc = "posting" \/ outcome \in {"Done", "Raised"}) => SomeChosenMatches
  /\ outcome = "NoValidTags" =>
       /\ ~SomeChosenMatches
       /\ pc = "done"
       /\ threads = <<>>
       /\ summary = NoSummary
       /\ Said("No valid tags selected. Aborting post.")
       /\ Len(calendar) = Cardinality(Created)
       /\ \A i \in Created : \E j \in DOMAIN calendar :
            calendar[j] = [start |-> attempts[i].start, end |-> attempts[i].end]

C8_Witness ==
  /\ outcome = "NoValidTags"
  /\ Len(calendar) >= 2
  /\ threads = <<>>

(* C9 as claimed.  No calendar entry is created in a flow unless one of the *)
(* chosen tag names resolves to a tag of the destination.                   *)
C9_NoEntryWithoutResolvedTag ==
  (outcome = "NoValidTags" /\ view = "stopped") => calendar = <<>>

(* C9 as amended.  No thread is posted unless at least one chosen name      *)
(* resolves to a tag of the destination: every posted thread carries at     *)
(* least one tag, each a tag of the destination named by a chosen name.     *)
(* (Calendar entries are created before the names are resolved.)            *)
C9_NoPostWithoutResolvedTag ==
  \A i \in DOMAIN threads :
    /\ threads[i].applied_tags # <<>>
    /\ \A k \in DOMAIN threads[i].applied_tags :
         LET t == threads[i].applied_tags[k] IN
         /\ \E j \in DOMAIN available_tags : available_tags[j] = t
         /\ \E n \in DOMAIN selected : SameName(selected[n], t.name)

C9_Witness ==
  /\ Len(threads) = 1
  /\ Len(selected) = 2
  /\ Len(threads[1].applied_tags) = 1
  /\ calendar # <<>>

(* C10.  A failure of the final publish step is caught by the flow: it ends *)
(* in PostError and the operator is told the cause; no exception leaves the *)
(* submit handler.  The code awaits create_thread outside any try.          *)
C10_PostFailureReported ==
  (pc = "done" /\ summary # NoSummary /\ threads = <<>>) =>
    /\ outcome = "PostError"
    /\ Said("Post error")

(* C11.  A failed calendar insert for one day is reported to the operator   *)
(* and does not end the loop: every day of the range is still attempted,    *)
(* the flow goes on to tag resolution, and a thread that is posted shows    *)
(* the links of the inserts that succeeded (none when every day failed).    *)
Failed == {i \in DOMAIN attempts : attempts[i].result = "error"}

Linked == {i \in DOMAIN attempts : attempts[i].result = "link"}

C11_InsertFailureGoesOn ==
  /\ \A i \in Failed :
       \E k \in DOMAIN followups : followups[k] = Msg("Calendar error", attempts[i].day)
  /\ ValidInput =>
       /\ (attempts # <<>> /\ Len(attempts) < SpanDays) =>
            /\ pc \in {"materialize", "inserting"}
            /\ outcome = ""
       /\ (attempts # <<>> /\ Len(attempts) = SpanDays) =>
            /\ pc \in {"resolve", "posting", "done"}
            /\ outcome \in {"", "NoValidTags", "Done", "Raised"}
       /\ (pc = "posting" \/ outcome = "Done") =>
            /\ Len(attempts) = SpanDays
            /\ summary.cal_field.present = (Linked # {})
            /\ Linked # {} =>
                 Len(summary.cal_field.labels) + summary.cal_field.more = Cardinality(Linked)
       /\ outcome = "Done" => threads = <<summary>>

C11_Witness ==
  /\ outcome = "Done"
  /\ SpanDays = 2
  /\ Failed = {1, 2}
  /\ Len(threads) = 1
  /\ ~threads[1].cal_field.present

(* C12.  At most one wizard flow is active per operator: once the operator  *)
(* has started a newer flow, a step taken in an earlier dialog of theirs    *)
(* changes no draft, makes no calendar insert and posts nothing.  The code  *)
(* keeps the earlier dialog's components alive and they write to the same   *)
(* _WIZ_STATE slot.                                                         *)
Newest(u, dlgs) ==
  CHOOSE i \in DOMAIN dlgs :
    dlgs[i].user_id = u /\ \A j \in DOMAIN dlgs : dlgs[j].user_id = u => j <= i

C12_EarlierFlowOrphaned ==
  [][(wiz_steps' > wiz_steps /\ wiz_last'.dialog \in DOMAIN dialogs
        /\ wiz_last'.dialog < Newest(wiz_last'.user_id, dialogs))
       => /\ _WIZ_STATE' = _WIZ_STATE
          /\ wiz_calls' = wiz_calls
          /\ channel_msgs' = channel_msgs]_vars

(* C13.  Operators share no draft state: a wizard step of one operator      *)
(* leaves every other operator's draft as it was, and every calendar        *)
(* request made by create carries the title, location, details, date and    *)
(* time of the draft of the operator who pressed Create Event.              *)
DraftOf(tbl, u) == IF u \in DOMAIN tbl THEN <<tbl[u]>> ELSE <<>>

OwnBody(body, st) ==
  /\ "title" \in DOMAIN st /\ body.summary = st["title"]
  /\ "location" \in DOMAIN st => body.location = st["location"]
  /\ "details" \in DOMAIN st => body.description = st["details"]
  /\ {"year", "month", "day"} \subseteq DOMAIN st
  /\ body.start.y = st["year"] /\ body.start.m = st["month"] /\ body.start.d = st["day"]
  /\ body.start.hour = (IF "hour" \in DOMAIN st THEN st["hour"] ELSE 18)
  /\ body.start.minute = (IF "minute" \in DOMAIN st THEN st["minute"] ELSE 0)
  /\ Instant(body.end) = Instant(body.start) + 60

C13_DraftsAreSeparate ==
  [][/\ \A u \in Operators :
          u # wiz_last'.user_id => DraftOf(_WIZ_STATE', u) = DraftOf(_WIZ_STATE, u)
     /\ Len(wiz_calls') > Len(wiz_calls) =>
          LET c == wiz_calls'[Len(wiz_calls')] IN
          /\ c.user_id = wiz_last'.user_id
          /\ c.user_id \in DOMAIN _WIZ_STATE
          /\ OwnBody(c.body, _WIZ_STATE[c.user_id])]_vars

C13_Witness ==
  /\ wiz_last.kind = "created"
  /\ Len(wiz_calls) = 1
  /\ wiz_calls[1].user_id = wiz_last.user_id
  /\ wiz_calls[1].body.summary = <<"G", "a", "m", "e", " ", "n", "i", "g", "h", "t">>
  /\ \E u \in DOMAIN _WIZ_STATE :
       /\ u # wiz_last.user_id
       /\ "title" \notin DOMAIN _WIZ_STATE[u]
  /\ \E i, j \in DOMAIN dialogs : dialogs[i].user_id # dialogs[j].user_id

(* C14.  The per-day inserts of a flow run one after the other: at most one *)
(* insert is in flight, the insert of a day is started only when the        *)
(* inserts of all earlier days have returned or failed, and the links are   *)
(* collected in ascending day order.                                        *)
C14_InsertsSequential ==
  /\ Cardinality(in_flight) <= 1
  /\ \A d \in in_flight :
       /\ Parsed
       /\ DayNum(d) = DayNum(start_full) + Len(attempts)
  /\ Len(calendar_links) = Cardinality(Linked)
  /\ \A i, j \in DOMAIN calendar_links :
       i < j => DayNum(calendar_links[i].day) < DayNum(calendar_links[j].day)
  /\ \A i \in DOMAIN calendar_links :
       \E k \in Linked : attempts[k].day = calendar_links[i].day

C14_Witness ==
  /\ in_flight = {[y |-> 2024, m |-> 3, d |-> 1]}
  /\ Len(attempts) = 2
  /\ Failed = {1}
  /\ Len(calendar_links) = 1

(* C15.  Cancel in the tag picker discards the flow whatever was selected   *)
(* before: the selection is cleared and the dialog stops with the press,    *)
(* and afterwards no calendar insert is attempted and no thread is posted.  *)
Canceled == \E i \in DOMAIN followups : followups[i] = Msg("Canceled.", <<>>)

C15_CancelDiscardsFlow ==
  Canceled =>
    /\ selected = <<>>
    /\ view = "stopped"
    /\ pc \in {"picker", "done"}
    /\ pc = "done" => outcome = "Cancelled"
    /\ in_flight = {}
    /\ attempts = <<>>
    /\ calendar = <<>>
    /\ threads = <<>>
    /\ summary = NoSummary

C15_Witness ==
  /\ Canceled
  /\ pc = "done"
  /\ outcome = "Cancelled"
  /\ options # <<>>
  /\ PromptCount = 1

(* C16 as claimed.  The operator's draft is discarded when the event is     *)
(* created and when the dialog times out: after such a step _WIZ_STATE      *)
(* holds no draft for the operator.  The code never removes an entry of     *)
(* _WIZ_STATE.                                                              *)
C16_DraftDiscarded ==
  [][(wiz_steps' > wiz_steps /\ wiz_last'.kind \in {"created", "timeout"})
       => wiz_last'.user_id \notin DOMAIN _WIZ_STATE']_vars

(* C17.  Start or end text that does not match MM/DD/YYYY h:mm am/pm is     *)
(* rejected before any external call: the operator is told, the flow ends,  *)
(* and there is no destination lookup, tag picker, calendar insert or post. *)
MonthLen(y, m) ==
  IF m = 12 THEN 31
  ELSE CumDays[m + 1] - CumDays[m] + (IF m = 2 /\ IsLeap(y) THEN 1 ELSE 0)

WellFormed(text) ==
  /\ text.mm \in 1..12
  /\ text.yyyy \in 1..9999
  /\ text.dd >= 1
  /\ text.dd <= MonthLen(text.yyyy, text.mm)
  /\ text.hh \in 1..12
  /\ text.mi \in 0..59
  /\ text.ap \in {"am", "pm", "AM", "PM", "Am", "Pm", "aM", "pM"}

C17_InvalidTextRejected ==
  (pc # "form" /\ ~(WellFormed(start_dt_in) /\ WellFormed(end_dt_in))) =>
    /\ pc = "done"
    /\ outcome = "InvalidInput"
    /\ followups = <<Msg("Invalid datetime. Use MM/DD/YYYY h:mm am/pm.", <<>>)>>
    /\ channel = "unset"
    /\ view = "none"
    /\ options = <<>>
    /\ in_flight = {}
    /\ attempts = <<>>
    /\ calendar = <<>>
    /\ threads = <<>>

C17_Witness ==
  /\ pc = "done"
  /\ WellFormed(start_dt_in)
  /\ end_dt_in.mm = 2 /\ end_dt_in.dd = 30 /\ end_dt_in.hh = 9
  /\ outcome = "InvalidInput"
  /\ channel = "unset"

(* C18.  When the destination channel cannot be resolved, or is not a forum *)
(* channel, the flow ends in DestinationUnavailable: the operator is told,  *)
(* no tag picker is shown, no calendar entry is created, nothing is posted. *)
C18_DestinationUnavailable ==
  /\ channel \in {"none", "not_forum"} =>
       /\ pc = "done"
       /\ outcome = "DestinationUnavailable"
       /\ Len(followups) = 1
       /\ followups[1].text \in
            (IF channel = "not_forum" THEN {"Need a Forum channel."}
             ELSE {"Bot lacks permission to view that channel.",
                   "Channel ID not found. Check config.", "Fetch error"})
       /\ view = "none"
       /\ options = <<>>
       /\ in_flight = {}
       /\ attempts = <<>>
       /\ calendar = <<>>
       /\ threads = <<>>
  /\ outcome = "DestinationUnavailable" => channel \in {"none", "not_forum"}
  /\ view # "none" => channel = "forum"

C18_Witness ==
  /\ channel = "not_forum"
  /\ outcome = "DestinationUnavailable"
  /\ followups = <<Msg("Need a Forum channel.", <<>>)>>

(* C19.  A reminder tick sends an alert for an entry only if the entry has  *)
(* a concrete start and its minutes until start lie in [0, lead-time];      *)
(* all-day entries, entries already started and entries further away get    *)
(* no alert and no marker.                                                  *)
EntryOf(id) == CHOOSE e \in Range(RemCalendar) : e.id = id

C19_AlertOnlyInWindow ==
  /\ \A i \in DOMAIN alerts :
       LET e == EntryOf(alerts[i].event_id) IN
       /\ e.timed
       /\ e.start - alerts[i].at >= 0
       /\ e.start - alerts[i].at <= REMIND_MINUTES
  /\ \A m \in reminder_log :
       /\ EntryOf(m[1]).timed
       /\ \E i \in DOMAIN alerts : alerts[i].event_id = m[1]

C19_Witness ==
  /\ now = 3
  /\ loop_state = "iterating"
  /\ idx = 3
  /\ items[1].id = "e2"
  /\ items[2].id = "e1"
  /\ \A i \in DOMAIN alerts : alerts[i].event_id # "e1"
  /\ \E i \in DOMAIN alerts : alerts[i].event_id = "e3" /\ alerts[i].at = 2
  /\ reminder_log = {<<"e3", ReminderTag>>}

(* C20.  The alert goes to the entry's thread when it can be obtained,      *)
(* otherwise to the channel recorded for the entry, otherwise to the        *)
(* default events channel; when none of them resolves the entry is skipped: *)
(* nothing is sent and no marker is written.                                *)
Expected(lk) ==
  LET row == EventsMap[lk.event_id] IN
  IF row # <<>> /\ row[1].thread_id # 0 /\ lk.thread THEN "thread"
  ELSE IF row # <<>> /\ row[1].channel_id # 0 /\ lk.channel THEN "channel"
  ELSE IF lk.default THEN "default"
  ELSE "none"

C20_TargetPreference ==
  [][(idx' = idx + 1 /\ lookup' # NoLookup) =>
       LET want == Expected(lookup') IN
       IF want = "none"
       THEN alerts' = alerts /\ reminder_log' = reminder_log
       ELSE \/ alerts' = alerts /\ reminder_log' = reminder_log
            \/ /\ Len(alerts') = Len(alerts) + 1
               /\ SubSeq(alerts', 1, Len(alerts)) = alerts
               /\ alerts'[Len(alerts')].event_id = lookup'.event_id
               /\ alerts'[Len(alerts')].target = want]_vars

C20_Witness ==
  /\ lookup.event_id = "e1"
  /\ ~lookup.thread
  /\ lookup.channel
  /\ alerts # <<>>
  /\ alerts[Len(alerts)].event_id = "e1"
  /\ alerts[Len(alerts)].target = "channel"

----------------------------------------------------------------------------
(* C21.  A failed fetch or send of one tick is dropped and tried again on   *)
(* the next: a failed fetch only ends the tick, a failed send leaves no     *)
(* marker and no alert and the for loop goes on, neither ends the task, and *)
(* a later pass over an entry whose send failed, still within the window    *)
(* and not yet alerted, looks its target up again and sends.                *)
InWindow(e, t) == e.timed /\ e.start - t >= 0 /\ e.start - t <= REMIND_MINUTES

SendFailed(id) == \E f \in failures : f.kind = "send" /\ f.event_id = id

Alerted(id) == \E i \in DOMAIN alerts : alerts[i].event_id = id

C21_FailuresRetried ==
  [][/\ (\E f \in failures' \ failures : f.kind = "fetch") =>
          /\ loop_state' = "sleeping"
          /\ now' = now + 1
          /\ alerts' = alerts
          /\ reminder_log' = reminder_log
     /\ (\E f \in failures' \ failures : f.kind = "send") =>
          /\ loop_state' = "iterating"
          /\ idx' = idx + 1
          /\ alerts' = alerts
          /\ reminder_log' = reminder_log
     /\ loop_state' = "dead" => ~table_exists
     /\ (/\ loop_state = "iterating"
         /\ idx' = idx + 1
         /\ InWindow(items[idx], now)
         /\ SendFailed(items[idx].id)
         /\ ~Alerted(items[idx].id)) =>
          /\ lookup' # NoLookup
          /\ lookup'.event_id = items[idx].id
          /\ Expected(lookup') # "none" =>
               \/ /\ Len(alerts') = Len(alerts) + 1
                  /\ alerts'[Len(alerts')].event_id = items[idx].id
                  /\ alerts'[Len(alerts')].at = now
               \/ alerts' = alerts /\ Failure("send", items[idx].id, now) \in failures'
    ]_vars

\* after a failed fetch at 0 and a failed send at 1 the alert for e1 went out at 2
C21_Witness ==
  /\ Failure("fetch", "", 0) \in failures
  /\ Failure("send", "e1", 1) \in failures
  /\ \E i \in DOMAIN alerts : alerts[i].event_id = "e1" /\ alerts[i].at = 2
  /\ \A i \in DOMAIN alerts : alerts[i].event_id = "e1" => alerts[i].at = 2

----------------------------------------------------------------------------
(* C22.  Every successful summary post creates an events_map row for the    *)
(* posted thread, so that the reminder loop can find the entry's thread:    *)
(* there are at least as many rows with a thread as threads posted by       *)
(* on_submit.                                                               *)
C22_PostCreatesIndexRow ==
  Len(threads) <= Cardinality({r \in events_map : r.thread_id # 0})

----------------------------------------------------------------------------
(* C23.  on_submit goes from the tag picker to the calendar inserts only    *)
(* after a confirm (the view stopped by _confirm) with between 1 and 5      *)
(* names selected; a confirm with nothing selected is answered with the     *)
(* prompt, leaves the view open and creates nothing.                        *)
C23_OnlyThroughConfirm ==
  [][/\ (pc = "picker" /\ pc' = "materialize") =>
          /\ view = "stopped"
          /\ Len(selected) >= 1
          /\ Len(selected) <= MaxTags
     /\ (followups' # followups /\ followups' = Say("Pick at least one tag.")) =>
          /\ view = "open" /\ view' = "open"
          /\ pc' = pc
          /\ attempts' = attempts /\ calendar' = calendar /\ threads' = threads
    ]_vars

----------------------------------------------------------------------------
(* C24.  The chosen names that match no tag of the channel are reported as  *)
(* missing, in the order chosen; they do not stop the post when some name   *)
(* matched; every chosen name is either matched by an applied tag or        *)
(* reported missing, never both; the "Tags" field lists all chosen names.   *)
Matches(name) ==
  \E i \in DOMAIN available_tags : SameName(available_tags[i].name, name)

Unmatched == SelectSeq(selected, LAMBDA n : ~Matches(n))

MissingReports ==
  SelectSeq(followups, LAMBDA f : f.text = "Missing forum tags in this channel")

Resolved == summary # NoSummary \/ outcome = "NoValidTags"

C24_MissingReportedNotBlocking ==
  Resolved =>
    /\ IF Unmatched = <<>> THEN MissingReports = <<>>
       ELSE Len(MissingReports) = 1 /\ MissingReports[1].arg = Unmatched
    /\ Unmatched # selected => summary # NoSummary /\ outcome # "NoValidTags"
    /\ summary # NoSummary =>
         /\ summary.tags_field = selected
         /\ \A k \in DOMAIN selected :
              (\E i \in DOMAIN summary.applied_tags :
                 SameName(summary.applied_tags[i].name, selected[k]))
              <=> ~(\E j \in DOMAIN Unmatched : Unmatched[j] = selected[k])
    /\ \A i \in DOMAIN threads : threads[i].tags_field = selected

\* a thread posted although one of the two chosen names was reported missing
C24_Witness ==
  /\ outcome = "Done"
  /\ Len(selected) = 2
  /\ Len(Unmatched) = 1
  /\ Len(MissingReports) = 1
  /\ Len(threads) = 1
  /\ threads[1].tags_field = selected
  /\ Len(threads[1].applied_tags) = 1

----------------------------------------------------------------------------
(* C25.  A posted thread carries between 1 and 5 tags, each a tag of the    *)
(* channel matching a chosen name, no tag twice, ordered as the names that  *)
(* first matched them were chosen.                                          *)
FirstChosen(t) ==
  CHOOSE k \in DOMAIN selected :
    /\ SameName(selected[k], t.name)
    /\ \A j \in DOMAIN selected : SameName(selected[j], t.name) => k <= j

----------------------------------------------------------------------------
(* C26.  Every per-day insert takes its start time of day from the parsed   *)
(* start and its end time of day from the parsed end, and starts on its own *)
(* date: the i-th insert starts on the i-th day of the range; so do the     *)
(* entries the calendar holds.                                              *)
C26_TimeOfDayCarried ==
  /\ \A i \in DOMAIN attempts :
       /\ TimeOfDay(attempts[i].start) = TimeOfDay(start_full)
       /\ TimeOfDay(attempts[i].end) = TimeOfDay(end_full)
       /\ DayNum(attempts[i].start) = DayNum(start_full) + i - 1
  /\ \A i \in DOMAIN calendar :
       /\ TimeOfDay(calendar[i].start) = TimeOfDay(start_full)
       /\ TimeOfDay(calendar[i].end) = TimeOfDay(end_full)
       /\ \A j \in DOMAIN calendar : i # j => DayNum(calendar[i].start) # DayNum(calendar[j].start)

\* three entries for three days, from 9:30 pm to 12:00 am
C26_Witness ==
  /\ Len(calendar) = 3
  /\ TimeOfDay(start_full) # TimeOfDay(end_full)
  /\ DayNum(calendar[3].start) = DayNum(start_full) + 2
  /\ TimeOfDay(calendar[3].start) = TimeOfDay(start_full)

----------------------------------------------------------------------------
(* C27.  The title of the post is prefixed with the start date alone when   *)
(* start and end fall on the same date, and with start date - end date      *)
(* otherwise; only the dates are compared, so a window on one date whose    *)
(* end time is not after its start time gets the single date.               *)
MonthDay(dt) == [mm |-> dt.m, dd |-> dt.d]

C27_TitlePrefix ==
  summary # NoSummary =>
    /\ DayNum(start_full) = DayNum(end_full) =>
         summary.title_prefix = <<MonthDay(start_full)>>
    /\ DayNum(start_full) # DayNum(end_full) =>
         summary.title_prefix = <<MonthDay(start_full), MonthDay(end_full)>>
    /\ \A i \in DOMAIN threads : threads[i].title_prefix = summary.title_prefix

\* posted for 9:30 pm to 12:00 am of one date: a single-date prefix
C27_Witness ==
  /\ outcome = "Done"
  /\ DayNum(start_full) = DayNum(end_full)
  /\ TimeOfDay(end_full) < TimeOfDay(start_full)
  /\ Len(threads) = 1
  /\ Len(threads[1].title_prefix) = 1

----------------------------------------------------------------------------
(* C28.  The "Calendar" field shows at most 3 links inline, the first ones  *)
(* returned, and "+N more" with N the number of links beyond 3; without any *)
(* link the field is left out.                                              *)
C28_CalendarField ==
  summary # NoSummary =>
    LET n == Len(calendar_links)
        f == summary.cal_field
    IN /\ f.present = (n > 0)
       /\ n > 0 =>
            /\ Len(f.labels) = (IF n > MaxInlineLinks THEN MaxInlineLinks ELSE n)
            /\ \A i \in DOMAIN f.labels : f.labels[i].link = calendar_links[i]
            /\ f.more = (IF n > MaxInlineLinks THEN n - MaxInlineLinks ELSE 0)

\* four inserts returned a link: three shown, "+1 more"
C28_Witness ==
  /\ outcome = "Done"
  /\ Len(calendar_links) = 4
  /\ Len(threads) = 1
  /\ Len(threads[1].cal_field.labels) = 3
  /\ threads[1].cal_field.more = 1

----------------------------------------------------------------------------
(* C29.  RSVP rows are upserts keyed by (event, user): the table holds at   *)
(* most one row per pair, carrying the status of that user's last press on  *)
(* that event; a press changes no row of another user or another event, and *)
(* a press the database refused changes nothing.                            *)
RowsOf(rows, e, u) == {r \in rows : r.event_id = e /\ r.user_id = u}

C29_RsvpKeyedUpsert ==
  [][/\ \A e \in RsvpEvents, u \in Members :
          RowsOf(rsvps', e, u) =
            IF rsvp_chosen'[<<e, u>>] = "" THEN {}
            ELSE {[event_id |-> e, user_id |-> u, status |-> rsvp_chosen'[<<e, u>>]]}
     /\ rsvp_last'.answered =>
          /\ rsvp_chosen'[<<rsvp_last'.event_id, rsvp_last'.user_id>>] = rsvp_last'.status
          /\ \A e \in RsvpEvents, u \in Members :
               (e # rsvp_last'.event_id \/ u # rsvp_last'.user_id) =>
                 RowsOf(rsvps', e, u) = RowsOf(rsvps, e, u)
     /\ ~rsvp_last'.answered => rsvps' = rsvps
    ]_vars

\* member 1 changed the answer for event 1 from going to maybe, after
\* member 2 answered for both events
C29_Witness ==
  /\ rsvps = {[event_id |-> 1, user_id |-> 1, status |-> "maybe"],
              [event_id |-> 1, user_id |-> 2, status |-> "going"],
              [event_id |-> 2, user_id |-> 2, status |-> "not going"]}
  /\ rsvp_last = [event_id |-> 1, user_id |-> 1, status |-> "maybe", answered |-> TRUE]
  /\ <<1, 1>> \in thread_members

----------------------------------------------------------------------------
(* C30.  get_tags returns an empty list instead of raising when the read of *)
(* the sheet failed on every retry.                                         *)
C30_GetTagsDegrades ==
  (g_state = "done" /\ g_failed = SheetsRetries) =>
    g_result = [raised |-> FALSE, value |-> <<>>]

----------------------------------------------------------------------------
(* C31.  The reminder task runs independently of the operators' flows: a    *)
(* sleeping task can start its tick whatever the flows wait for (a modal    *)
(* not yet submitted, an open tag picker, an open wizard dialog), and a     *)
(* step of the task changes nothing of any flow: no draft, no selection,    *)
(* no position.                                                             *)
C31_TickIndependent ==
  [][/\ (loop_state = "sleeping" /\ now < MaxConcTicks) =>
          ENABLED (\E ok \in BOOLEAN : TickStart(ok))
     /\ remVars' # remVars => (flowVars' = flowVars /\ wizVars' = wizVars)
    ]_vars

\* an alert went out while the tag picker was open with a selection made and
\* a wizard dialog had its details modal open
C31_Witness ==
  /\ pc = "picker"
  /\ view = "open"
  /\ selected # <<>>
  /\ \E i \in DOMAIN dialogs : dialogs[i].modal
  /\ alerts # <<>>
  /\ loop_state = "sleeping"
  /\ now = 1

----------------------------------------------------------------------------
(* C32.  In the "Calendar" field with several links every link is labelled *)
(* with the day of the calendar entry it links to, also when the insert of  *)
(* an earlier day failed or returned no link.                               *)
C32_LinkLabelledWithItsDay ==
  (summary # NoSummary /\ Len(calendar_links) > 1) =>
    \A i \in DOMAIN summary.cal_field.labels :
      summary.cal_field.labels[i].label = MonthDay(summary.cal_field.labels[i].link.day)

----------------------------------------------------------------------------
(* C33.  A marker is written only after the alert of its (entry, tag) pair  *)
(* was sent in the same pass of the same tick: every marker of reminder_log *)
(* has a delivered alert, a step that adds a marker adds exactly the marker *)
(* of the alert it sends, and a failed send adds none.                      *)
C33_MarkerAfterAlert ==
  [][/\ \A m \in reminder_log' :
          \E i \in DOMAIN alerts' : alerts'[i].event_id = m[1] /\ alerts'[i].tag = m[2]
     /\ reminder_log' # reminder_log =>
          /\ Len(alerts') = Len(alerts) + 1
          /\ failures' = failures
          /\ reminder_log' \ reminder_log =
               {<<alerts'[Len(alerts')].event_id, alerts'[Len(alerts')].tag>>}
          /\ alerts'[Len(alerts')].at = now
     /\ \A m \in reminder_log : m \in reminder_log'
    ]_vars

\* the send for e1 failed at 0 and left no marker; the alert of 1 wrote it
C33_Witness ==
  /\ Failure("send", "e1", 0) \in failures
  /\ reminder_log = {<<"e1", ReminderTag>>}
  /\ Len(alerts) = 1
  /\ alerts[1].event_id = "e1"
  /\ alerts[1].at = 1

----------------------------------------------------------------------------
(* C34.  Within one tick a failed send or a failed marker write for one     *)
(* entry does not stop the tick: the for loop moves on to the next entry,   *)
(* the tick ends only past the last entry of the fetch, and every entry     *)
(* reached that is due and unmarked has its target looked up and, when one  *)
(* resolves, its alert sent (or that send fails in turn).                   *)
C34_FailureDoesNotStopTick ==
  [][/\ (loop_state = "iterating" /\ loop_state' = "sleeping") => idx > Len(items)
     /\ (loop_state = "iterating" /\ idx <= Len(items) /\ table_exists) =>
          /\ loop_state' = "iterating"
          /\ idx' = idx + 1
          /\ items' = items
          /\ now' = now
     /\ (/\ loop_state = "iterating"
         /\ idx <= Len(items)
         /\ table_exists
         /\ InWindow(items[idx], now)
         /\ <<items[idx].id, ReminderTag>> \notin reminder_log) =>
          /\ lookup'.event_id = items[idx].id
          /\ Expected(lookup') # "none" =>
               \/ /\ Len(alerts') = Len(alerts) + 1
                  /\ alerts'[Len(alerts')].event_id = items[idx].id
               \/ Failure("send", items[idx].id, now) \in failures'
    ]_vars

\* at 2 the send for e1 failed and the alert for e3, later in the same
\* fetch, went out
C34_Witness ==
  /\ now = 2
  /\ loop_state = "iterating"
  /\ Failure("send", "e1", 2) \in failures
  /\ \A i \in DOMAIN alerts : alerts[i].event_id # "e1"
  /\ \E i \in DOMAIN alerts : alerts[i].event_id = "e3" /\ alerts[i].at = 2

----------------------------------------------------------------------------
(* C35.  Create Event on a draft without a title, or whose year, month,     *)
(* day, hour and minute form no valid date, makes no calendar insert,       *)
(* writes no event_tags row, posts nothing, answers with an error message   *)
(* and leaves the draft as it is.                                           *)
CreateKinds == {"no_title", "date_error", "no_channel", "created", "create_failed"}

NoTitle(d) == d = <<>> \/ "title" \notin DOMAIN d[1] \/ d[1]["title"] = <<>>

NoDate(d) ==
  \/ d = <<>>
  \/ {"year", "month", "day"} \ DOMAIN d[1] # {}
  \/ d[1]["day"] < 1
  \/ d[1]["day"] > MonthLen(d[1]["year"], d[1]["month"])

C35_BadDraftCreatesNothing ==
  [][(wiz_steps' = wiz_steps + 1 /\ wiz_last'.kind \in CreateKinds) =>
       LET d == DraftOf(_WIZ_STATE, wiz_last'.user_id) IN
       (NoTitle(d) \/ NoDate(d)) =>
         /\ wiz_last'.kind = (IF NoTitle(d) THEN "no_title" ELSE "date_error")
         /\ wiz_last'.reply # ""
         /\ wiz_calls' = wiz_calls
         /\ event_tags' = event_tags
         /\ channel_msgs' = channel_msgs
         /\ events_map' = events_map
         /\ _WIZ_STATE' = _WIZ_STATE]_vars

\* day 31 was kept when the month changed to February: Create Event answers
\* with the date error
C35_Witness ==
  /\ wiz_last.kind = "date_error"
  /\ wiz_last.user_id \in DOMAIN _WIZ_STATE
  /\ {"title", "month", "day"} \subseteq DOMAIN _WIZ_STATE[wiz_last.user_id]
  /\ _WIZ_STATE[wiz_last.user_id]["day"] = 31
  /\ _WIZ_STATE[wiz_last.user_id]["month"] = 2
  /\ _WIZ_STATE[wiz_last.user_id]["title"] # <<>>
  /\ wiz_calls = <<>>
  /\ channel_msgs = <<>>

----------------------------------------------------------------------------
(* C36: in both creating flows the calendar insert comes first, the         *)
(* event_tags upserts second and the post last.                             *)

\* the tags a draft asks for, as a set: its mode and its stripped tags
DraftTags(d) ==
  IF d = <<>> THEN {}
  ELSE {StrStrip(t) : t \in Range(Get(d[1], "tags", <<>>))}
       \cup (IF Get(d[1], "mode", <<>>) # <<>> THEN {d[1]["mode"]} ELSE {})

\* C36: a step of event_wizard's Create Event or of event_create that
\* attempts the calendar insert writes event_tags rows and posts only when
\* the insert succeeded: a failed insert leaves event_tags, the channel and
\* events_map as they were and is answered with "Calendar error"; every new
\* event_tags row carries the id of the entry just inserted; the wizard posts
\* only with all the draft's tags written; no other step writes rows or
\* posts, so every row belongs to an entry whose insert succeeded
C36_InsertThenTagsThenPost ==
  [][LET n == Len(wiz_calls')
         new == event_tags' \ event_tags
     IN
     /\ IF n = Len(wiz_calls) + 1
        THEN /\ \A row \in new : row[1] = n
             /\ wiz_calls'[n].result = "error" =>
                  /\ new = {}
                  /\ channel_msgs' = channel_msgs
                  /\ events_map' = events_map
                  /\ wiz_last'.reply = "Calendar error"
             /\ channel_msgs' # channel_msgs =>
                  /\ wiz_calls'[n].result = "created"
                  /\ wiz_last'.kind \in CreateKinds =>
                       \A t \in DraftTags(DraftOf(_WIZ_STATE, wiz_last'.user_id)) :
                         <<n, t>> \in event_tags'
        ELSE /\ wiz_calls' = wiz_calls
             /\ new = {}
             /\ channel_msgs' = channel_msgs
     /\ \A row \in event_tags' :
          row[1] \in DOMAIN wiz_calls' /\ wiz_calls'[row[1]].result = "created"]_vars

\* the wizard's insert failed for a draft with tags: nothing written, nothing
\* posted, "Calendar error"
C36_Witness ==
  /\ wiz_last.kind = "create_failed"
  /\ wiz_last.reply = "Calendar error"
  /\ Len(wiz_calls) = 1
  /\ wiz_calls[1].result = "error"
  /\ DraftTags(DraftOf(_WIZ_STATE, wiz_last.user_id)) # {}
  /\ event_tags = {}
  /\ channel_msgs = <<>>
  /\ events_map = {}

----------------------------------------------------------------------------
(* C38: the two commands are refused outside the configured channels.       *)

\* the channels configured as sources of the commands
ConfiguredSources == {c \in {EVENT_CHANNEL_ID, CREATE_FROM_CHANNEL_ID} : c > 0}

\* C38: with a source channel configured, a step that is the event_wizard or
\* the event_create command invoked in a channel that is not configured is
\* answered with the refusal message and changes nothing: no draft is created
\* or reset, no dialog is opened, no calendar insert is made, no event_tags
\* row is written and nothing is posted or indexed
C38_RefusedElsewhere ==
  [][(/\ wiz_steps' = wiz_steps + 1
      /\ wiz_last'.channel_id > 0
      /\ ConfiguredSources # {}
      /\ wiz_last'.channel_id \notin ConfiguredSources) =>
       /\ wiz_last'.kind \in {"refused", "cmd_refused"}
       /\ wiz_last'.reply \in {"Start the wizard in the events or create channel only.",
                               "Use this in the events or create channel only."}
       /\ _WIZ_STATE' = _WIZ_STATE
       /\ dialogs' = dialogs
       /\ wiz_calls' = wiz_calls
       /\ event_tags' = event_tags
       /\ channel_msgs' = channel_msgs
       /\ events_map' = events_map]_vars

\* /event_wizard is refused in another channel while the operator's draft
\* already has a title: the draft and the dialog stay
C38_Witness ==
  /\ wiz_last.kind = "refused"
  /\ wiz_last.channel_id = OtherChannel
  /\ wiz_last.user_id \in DOMAIN _WIZ_STATE
  /\ "title" \in DOMAIN _WIZ_STATE[wiz_last.user_id]
  /\ Len(dialogs) = 1

----------------------------------------------------------------------------
(* C37: the day pickers of page 2 after every build.                        *)

\* the DaySelects among a view's children
DayPickers(children) == {k \in DOMAIN children : children[k].type = "DaySelect"}

\* the pickers offer exactly the days of month m of year y, each day once,
\* none with more than 25 options: one picker up to 25 days, else 1-16 and
\* 17-last
PickersOf(children, y, m) ==
  LET P == DayPickers(children)
      last == MonthLen(y, m)
      Offers(k, d) == children[k].start_day <= d /\ d <= children[k].end_day
  IN /\ \A d \in 1..31 : Cardinality({k \in P : Offers(k, d)}) = (IF d <= last THEN 1 ELSE 0)
     /\ \A k \in P : /\ 1 <= children[k].start_day
                     /\ children[k].start_day <= children[k].end_day
                     /\ children[k].end_day - children[k].start_day + 1 <= 25
     /\ IF last <= 25 THEN Cardinality(P) = 1
        ELSE /\ Cardinality(P) = 2
             /\ \E k \in P : children[k].start_day = 1 /\ children[k].end_day = 16
             /\ \E k \in P : children[k].start_day = 17 /\ children[k].end_day = last

----------------------------------------------------------------------------
(* C39: what /roles sync deletes and creates.                               *)

\* the non-empty trimmed role names of the sheet
NamedInSheet == {StrStrip(sheet_names[i]) : i \in DOMAIN sheet_names} \ {<<>>}

\* the roles a step removes from the guild, and those it adds
RolesGone == {r \in guild_roles : \A q \in guild_roles' : q.id # r.id}
RolesBorn == {q \in guild_roles' : \A r \in guild_roles : r.id # q.id}

----------------------------------------------------------------------------
(* C40: /sync_members run again over an unchanged membership.               *)

\* the row is the member's: it carries the member's id or user name
RowIsOf(row, m) == row[Idx("User Name")] \in {Uid(m), Username(m)}

\* C40: a run of sync_members that follows an earlier run with the same
\* members in the guild appends no row, leaves every row of a current member
\* with Active = YES and Last Seen = the time of the run, and sets Active = NO
\* only in rows of members who are not in the guild
C40_SecondRunUpserts ==
  [][(sm_now' = sm_now + 1 /\ sm_now >= 1 /\ guild_members = sm_last.members) =>
       /\ Len(ws_rows') = Len(ws_rows)
       /\ \A m \in guild_members : \A k \in DOMAIN ws_rows' :
            RowIsOf(ws_rows'[k], m) =>
              /\ ws_rows'[k][Idx("Active")] = "YES"
              /\ ws_rows'[k][Idx("Last Seen")] = Iso(sm_now')
       /\ \A k \in DOMAIN ws_rows :
            (ws_rows'[k] # ws_rows[k] /\ ws_rows'[k][Idx("Active")] = "NO") =>
              \A m \in guild_members : ~RowIsOf(ws_rows[k], m)]_vars

============================================================================
